---------------------------- MODULE Spec2Model ----------------------------
(***************************************************************************)
(* Model of the multi-engine database gateway of Accura8-Fastapi:          *)
(*   app/helpers/db_connectors.py        connectors and query validation   *)
(*   app/services/database/database_service.py   the gateway service       *)
(*   app/controller/database.py          the HTTP handlers                 *)
(*   app/exceptions/database_exceptions.py   the error classifier          *)
(*                                                                         *)
(* A SQL text is a sequence of lexemes (keywords, names, numbers,          *)
(* punctuation, white space).  The lexemes are chosen so that every        *)
(* regular expression of the source matches the character string exactly   *)
(* where its lexeme-level pattern matches the sequence: no lexeme contains *)
(* another pattern literal, and two word lexemes are never adjacent.       *)
(***************************************************************************)
EXTENDS Integers, Sequences, FiniteSets, TLC

\* ------------------------------------------------------------------------
\* Bounds of the model
\* ------------------------------------------------------------------------
MaxWs == 1
MaxSemis == 2
MaxDefs == 2

\* The primary keys the store hands out, and the connections one connector
\* opens in its life.
MaxIds == 2

MaxConnects == 4

\* The operations with a connector that one behaviour performs.
MaxOperations == 2

\* The pieces of an error text and the characters of an identifier.
MaxFragments == 3

MaxIdentifier == 3

\* ------------------------------------------------------------------------
\* Lexemes
\* ------------------------------------------------------------------------
WS == {" ", "\n"}

Punct == {";", "=", "(", ")", "*", ","}

CommentMarks == {"--", "/*", "*/"}

\* str.upper() on one lexeme.
Upper(tok) ==
    CASE tok = "or" -> "OR"
      [] tok = "Or" -> "OR"
      [] tok = "select" -> "SELECT"
      [] tok = "x" -> "X"
      [] tok = "t" -> "T"
      [] tok = "c" -> "C"
      [] tok = "users" -> "USERS"
      [] OTHER -> tok

\* str.upper() on a text.
UpperText(q) == [i \in DOMAIN q |-> Upper(q[i])]

\* sqlparse's lexer: the token type of a lexeme (sqlparse/keywords.py).
DMLWords == {"SELECT", "INSERT", "UPDATE", "DELETE"}

DDLWords == {"DROP", "CREATE", "ALTER"}

CTEWords == {"WITH"}

PlainKeywords == {"FROM", "WHERE", "OR", "AND", "TABLE", "SET", "INTO", "NULL",
                  "IS", "UNION", "ALL", "AS", "EXEC", "SHOW", "GRANT", "CALL",
                  "DISTINCT", "LIMIT", "ON", "JOIN", "IN", "GROUP BY",
                  "ORDER BY", "HAVING", "BETWEEN"}

TokenType(tok) ==
    LET u == Upper(tok) IN
    CASE u \in DMLWords -> "DML"
      [] u \in DDLWords -> "DDL"
      [] u \in CTEWords -> "CTE"
      [] u \in PlainKeywords -> "Keyword"
      [] tok \in WS -> "Whitespace"
      [] tok \in Punct -> "Punctuation"
      [] tok \in CommentMarks -> "Comment"
      [] OTHER -> "Name"

\* Token.is_keyword: ttype in T.Keyword (DML, DDL and CTE are sub-types).
IsKeyword(tok) == TokenType(tok) \in {"DML", "DDL", "CTE", "Keyword"}

\* ------------------------------------------------------------------------
\* sqlparse.parse(query)[0]: the first statement of a text
\* ------------------------------------------------------------------------
\* Parenthesis depth of the text before position i.
RECURSIVE DepthBefore(_, _)
DepthBefore(q, i) ==
    IF i <= 1 THEN 0
    ELSE LET d == DepthBefore(q, i - 1) IN
         IF q[i - 1] = "(" THEN d + 1
         ELSE IF q[i - 1] = ")" THEN d - 1
         ELSE d

\* Positions of the statement separators: a ';' outside parentheses.
SplitPoints(q) == {i \in DOMAIN q : q[i] = ";" /\ DepthBefore(q, i) <= 0}

Min(S) == CHOOSE m \in S : \A n \in S : m <= n

\* The first statement: the text up to and including the first separator.
FirstStatement(q) ==
    IF SplitPoints(q) = {} THEN q
    ELSE SubSeq(q, 1, Min(SplitPoints(q)))

\* Number of statements sqlparse.parse finds: the separators, plus the rest
\* of the text after the last one when it holds more than white space.
NumStatements(q) ==
    LET sp == SplitPoints(q)
        last == IF sp = {} THEN 0 ELSE CHOOSE m \in sp : \A n \in sp : n <= m
        rest == {i \in DOMAIN q : i > last /\ q[i] \notin WS}
    IN  Cardinality(sp) + (IF rest = {} THEN 0 ELSE 1)

\* Statement.get_type(): the first token that is not white space decides.
\* After WITH the first DML keyword outside the CTE's parentheses decides.
GetType(stmt) ==
    LET idx == {i \in DOMAIN stmt : TokenType(stmt[i]) \notin {"Whitespace", "Comment"}}
    IN  IF idx = {} THEN "UNKNOWN"
        ELSE LET f == Min(idx)
                 ty == TokenType(stmt[f])
             IN  IF ty \in {"DML", "DDL"} THEN Upper(stmt[f])
                 ELSE IF ty = "CTE"
                 THEN LET dml == {i \in DOMAIN stmt : i > f /\ TokenType(stmt[i]) = "DML"
                                                      /\ DepthBefore(stmt, i) = 0}
                      IN  IF dml = {} THEN "UNKNOWN" ELSE Upper(stmt[Min(dml)])
                 ELSE "UNKNOWN"

\* sqlparse groups a WHERE clause (up to the keyword that closes it) and a
\* parenthesis into one token each: the tokens inside are not in
\* Statement.tokens.
WhereClosers == {"ORDER BY", "GROUP BY", "LIMIT", "UNION", "HAVING", "INTO"}

InsideWhere(stmt, i) ==
    \E w \in 1..i :
       /\ Upper(stmt[w]) = "WHERE"
       /\ DepthBefore(stmt, w) = 0
       /\ \A k \in (w + 1)..i :
             ~(Upper(stmt[k]) \in WhereClosers /\ DepthBefore(stmt, k) = 0)

InsideParenthesis(stmt, i) == DepthBefore(stmt, i) > 0 \/ stmt[i] \in {"(", ")"}

\* [token.value.upper() for token in parsed.tokens if token.is_keyword]
TopLevelKeywords(stmt) ==
    {Upper(stmt[i]) : i \in {j \in DOMAIN stmt : /\ IsKeyword(stmt[j])
                                                 /\ ~InsideWhere(stmt, j)
                                                 /\ ~InsideParenthesis(stmt, j)}}

\* Every recognised keyword of the statement, at any depth.
AllKeywords(stmt) == {Upper(stmt[i]) : i \in {j \in DOMAIN stmt : IsKeyword(stmt[j])}}

\* ------------------------------------------------------------------------
\* re.search on a text: the regular expressions of DANGEROUS_PATTERNS
\* ------------------------------------------------------------------------
Lit(S) == [k |-> "lit", s |-> S]

WsPlus == [k |-> "ws+", s |-> {}]

WsStar == [k |-> "ws*", s |-> {}]

\* '.*' and '.*?': any characters but a line break.
AnyStar == [k |-> "any*", s |-> {}]

\* '$' without re.MULTILINE: the end of the string, or just before a line
\* break that ends the string.
Eol == [k |-> "eol", s |-> {}]

\* Whether pattern p, from its element i on, matches text q from position j.
RECURSIVE MatchFrom(_, _, _, _)
MatchFrom(p, i, q, j) ==
    IF i > Len(p) THEN TRUE
    ELSE CASE p[i].k = "lit" ->
                 j <= Len(q) /\ q[j] \in p[i].s /\ MatchFrom(p, i + 1, q, j + 1)
           [] p[i].k = "ws+" ->
                 /\ j <= Len(q)
                 /\ q[j] \in WS
                 /\ (MatchFrom(p, i + 1, q, j + 1) \/ MatchFrom(p, i, q, j + 1))
           [] p[i].k = "ws*" ->
                 \/ MatchFrom(p, i + 1, q, j)
                 \/ (j <= Len(q) /\ q[j] \in WS /\ MatchFrom(p, i, q, j + 1))
           [] p[i].k = "any*" ->
                 \/ MatchFrom(p, i + 1, q, j)
                 \/ (j <= Len(q) /\ q[j] # "\n" /\ MatchFrom(p, i, q, j + 1))
           [] p[i].k = "eol" ->
                 /\ (j = Len(q) + 1 \/ (j = Len(q) /\ q[j] = "\n"))
                 /\ MatchFrom(p, i + 1, q, Len(q) + 1)

\* re.search(p, q): a match starting anywhere.
ReSearch(p, q) == \E j \in 1..(Len(q) + 1) : MatchFrom(p, 1, q, j)

\* DatabaseConnector.DANGEROUS_PATTERNS, in the order of the list.  The
\* patterns are searched in query.upper() with re.IGNORECASE, so the literals
\* are written in upper case.
DANGEROUS_PATTERNS ==
    << [src |-> "--",                   pat |-> <<Lit({"--"})>>],
       [src |-> "/\\*.*?\\*/",          pat |-> <<Lit({"/*"}), AnyStar, Lit({"*/"})>>],
       [src |-> ";.*?$",                pat |-> <<Lit({";"}), AnyStar, Eol>>],
       [src |-> "UNION\\s+ALL\\s+SELECT",
            pat |-> <<Lit({"UNION"}), WsPlus, Lit({"ALL"}), WsPlus, Lit({"SELECT"})>>],
       [src |-> "OR\\s+1\\s*=\\s*1",
            pat |-> <<Lit({"OR"}), WsPlus, Lit({"1"}), WsStar, Lit({"="}), WsStar, Lit({"1"})>>],
       [src |-> "DROP\\s+TABLE",        pat |-> <<Lit({"DROP"}), WsPlus, Lit({"TABLE"})>>],
       [src |-> "DELETE\\s+FROM",       pat |-> <<Lit({"DELETE"}), WsPlus, Lit({"FROM"})>>],
       [src |-> "UPDATE\\s+.*SET",      pat |-> <<Lit({"UPDATE"}), WsPlus, AnyStar, Lit({"SET"})>>],
       [src |-> "EXECUTE\\s+IMMEDIATE", pat |-> <<Lit({"EXECUTE"}), WsPlus, Lit({"IMMEDIATE"})>>],
       [src |-> "EXEC\\s+xp_",          pat |-> <<Lit({"EXEC"}), WsPlus, Lit({"XP_CMDSHELL"})>>],
       [src |-> "xp_cmdshell",          pat |-> <<Lit({"XP_CMDSHELL"})>>] >>

\* DatabaseConnector.ALLOWED_OPERATIONS
ALLOWED_OPERATIONS ==
    {"SELECT", "WITH", "FROM", "WHERE", "GROUP BY", "HAVING", "ORDER BY",
     "LIMIT", "JOIN", "LEFT JOIN", "RIGHT JOIN", "INNER JOIN", "OUTER JOIN",
     "ON", "AND", "OR", "IN", "BETWEEN", "LIKE", "AS"}

\* ------------------------------------------------------------------------
\* Outcomes of a call: a value, or the exception it raised
\* ------------------------------------------------------------------------
Ok(v) == [ok |-> TRUE, exc |-> "", msg |-> <<>>, val |-> v]

Raise(e, m) == [ok |-> FALSE, exc |-> e, msg |-> m, val |-> <<>>]

\* query.count(';')
CountSemis(q) == Cardinality({i \in DOMAIN q : q[i] = ";"})

\* The dangerous patterns that match the text, by their place in the list.
MatchingPatterns(q) ==
    {n \in DOMAIN DANGEROUS_PATTERNS : ReSearch(DANGEROUS_PATTERNS[n].pat, UpperText(q))}

\* The top-level keywords of the first statement that are not allowed, by
\* their place in the statement.
UnauthorizedAt(q) ==
    LET stmt == FirstStatement(q) IN
    {i \in DOMAIN stmt : /\ IsKeyword(stmt[i])
                         /\ ~InsideWhere(stmt, i)
                         /\ ~InsideParenthesis(stmt, i)
                         /\ Upper(stmt[i]) \notin ALLOWED_OPERATIONS}

\* DatabaseConnector._validate_query(query): raises, or returns None.
ValidateQuery(q) ==
    IF q = <<>> THEN Raise("IndexError", <<"tuple index out of range">>)
    ELSE IF MatchingPatterns(q) # {}
    THEN Raise("SQLInjectionError",
               <<"Potential SQL injection detected: ",
                 DANGEROUS_PATTERNS[Min(MatchingPatterns(q))].src>>)
    ELSE IF UnauthorizedAt(q) # {}
    THEN Raise("SQLInjectionError",
               <<"Unauthorized SQL operation detected: ",
                 Upper(FirstStatement(q)[Min(UnauthorizedAt(q))])>>)
    ELSE IF CountSemis(q) > 1
    THEN Raise("SQLInjectionError", <<"Multiple SQL statements are not allowed">>)
    ELSE IF \E i \in DOMAIN q : q[i] \in {"--", "/*"}
    THEN Raise("SQLInjectionError", <<"SQL comments are not allowed">>)
    ELSE Ok(<<>>)

\* QueryValidator.validate_and_sanitize_query(query, None): raises, or
\* returns the query it was given.
ValidateAndSanitizeQuery(q) ==
    IF q = <<>> THEN Raise("ValueError", <<"Empty or invalid SQL query">>)
    ELSE IF GetType(FirstStatement(q)) \notin {"SELECT", "UNKNOWN"}
    THEN Raise("SQLInjectionError", <<"Only SELECT queries are allowed">>)
    ELSE Ok(q)

\* ------------------------------------------------------------------------
\* The SQL texts the validators are applied to
\* ------------------------------------------------------------------------
SelectOne == <<"SELECT", " ", "1">>

SelectLower == <<"select", " ", "1">>

SelectFrom == <<"SELECT", " ", "x", " ", "FROM", " ", "t">>

SelectUsers == <<"SELECT", " ", "*", " ", "FROM", " ", "users">>

SelectWhere == SelectFrom \o <<" ", "WHERE", " ", "x", " ", "=", " ", "1">>

WithSelect == <<"WITH", " ", "c", " ", "AS", " ", "(", "SELECT", " ", "1", ")", " ">>
              \o <<"SELECT", " ", "x", " ", "FROM", " ", "c">>

DropUsers == <<"DROP", " ", "TABLE", " ", "users">>

DeleteFrom == <<"DELETE", " ", "FROM", " ", "t">>

InsertInto == <<"INSERT", " ", "INTO", " ", "t", " ", "SELECT", " ", "1">>

ExecProc == <<"EXEC", " ", "x">>

ShowTables == <<"SHOW", " ", "TABLE", " ", "t">>

\* Single statements without comments: the SELECTs first.
SelectStatements == {SelectOne, SelectLower, SelectFrom, SelectUsers, SelectWhere, WithSelect}

OtherStatements == {DropUsers, DeleteFrom, InsertInto, ExecProc, ShowTables}

Statements == SelectStatements \cup OtherStatements

\* n times the lexeme tok.
Repeat(tok, n) == [i \in 1..n |-> tok]

\* The white-space runs of at most n characters.
RECURSIVE WsRuns(_)
WsRuns(n) ==
    IF n = 0 THEN {<<>>}
    ELSE WsRuns(n - 1) \cup {Append(r, w) : r \in {r0 \in WsRuns(n - 1) : Len(r0) = n - 1}, w \in WS}

\* One statement followed by 0..MaxSemis ';'.
TerminatedTexts == {s \o Repeat(";", k) : s \in Statements, k \in 0..MaxSemis}

\* Two statements, separated by ';' and an optional blank or line break.
Separators == {<<";">>, <<";", " ">>, <<";", "\n">>}

StackedTexts ==
    {s1 \o sep \o s2 \o term : s1 \in SelectStatements, s2 \in Statements,
                               sep \in Separators, term \in {<<>>, <<";">>}}

\* A SELECT whose WHERE clause ends with the always-true predicate, in every
\* casing of OR and with every white-space run between its tokens.
OrCasings == {"OR", "or", "Or"}

TautologyTexts ==
    {SelectWhere \o <<" ", o>> \o w1 \o <<"1">> \o w2 \o <<"=">> \o w3 \o <<"1">> :
        o \in OrCasings, w1 \in WsRuns(MaxWs) \ {<<>>},
        w2 \in WsRuns(MaxWs), w3 \in WsRuns(MaxWs)}

\* A keyword outside the allow-list at the top level of a SELECT, inside
\* its WHERE clause, and inside a parenthesis.
OutsideKeywords == {"NULL", "DISTINCT", "TABLE", "SHOW"}

TopLevelTexts == {<<"SELECT", " ", k, " ", "x", " ", "FROM", " ", "t">> : k \in OutsideKeywords}

WhereTexts == {SelectFrom \o <<" ", "WHERE", " ", "x", " ", k>> : k \in OutsideKeywords}

ParenTexts == {<<"SELECT", " ", "(", k, ")", " ", "FROM", " ", "t">> : k \in OutsideKeywords}

NestedTexts == TopLevelTexts \cup WhereTexts \cup ParenTexts

\* Texts with a comment marker.
CommentTexts == {SelectOne \o <<" ", "--">>, SelectOne \o <<" ", "/*", "x", "*/">>}

Texts == TerminatedTexts \cup StackedTexts \cup TautologyTexts \cup NestedTexts
         \cup CommentTexts

\* ------------------------------------------------------------------------
\* The error classifier (app/exceptions/database_exceptions.py)
\* ------------------------------------------------------------------------
\* An error text is a sequence of fragments.  str.lower() on one fragment:
Lower(a) ==
    CASE a = "ORA-01017" -> "ora-01017"
      [] a = "ORA-12541" -> "ora-12541"
      [] a = "ORA-12545" -> "ora-12545"
      [] a = "ORA-12505" -> "ora-12505"
      [] a = "ORA-01031" -> "ora-01031"
      [] a = "ORA-12170" -> "ora-12170"
      [] a = "ORA-12514" -> "ora-12514"
      [] a = "ORA-12504" -> "ora-12504"
      [] a = "ORA-12520" -> "ora-12520"
      [] a = "28P01" -> "28p01"
      [] a = "3D000" -> "3d000"
      [] a = "57P03" -> "57p03"
      [] a = "Connection refused" -> "connection refused"
      [] a = "Timeout expired" -> "timeout expired"
      [] OTHER -> a

LowerText(m) == [i \in DOMAIN m |-> Lower(m[i])]

Entry(c, cat, m) == [code |-> c, category |-> cat, message |-> m]

\* PostgreSQLErrorHandler._init_error_patterns, in the order of the dict.
PostgreSQLPatterns ==
    << Entry("28000", "AUTHENTICATION_FAILED",
             "Authentication failed. Please check your username and password."),
       Entry("28P01", "AUTHENTICATION_FAILED",
             "Incorrect password for user. Please check your password."),
       Entry("3D000", "DATABASE_NOT_FOUND",
             "The specified database does not exist. Please check the database name."),
       Entry("08006", "CONNECTION_REFUSED",
             "Connection failed. The port number might be incorrect or PostgreSQL is not running."),
       Entry("57P03", "MAX_CONNECTIONS",
             "The database has reached its maximum allowed connections."),
       Entry("08001", "INVALID_HOST",
             "Could not connect to host. Please verify the hostname is correct."),
       Entry("42501", "PERMISSION_DENIED",
             "User lacks required permissions. Please check user privileges."),
       Entry("53300", "MAX_CONNECTIONS",
             "Too many connections. Please try again later."),
       Entry("08004", "PERMISSION_DENIED",
             "Server rejected the connection. Check host-based authentication configuration.") >>

\* MySQLErrorHandler._init_error_patterns (MariaDBErrorHandler inherits it).
MySQLPatterns ==
    << Entry("2005", "INVALID_HOST",
             "Could not connect to MySQL server. The host address appears to be incorrect."),
       Entry("2003", "CONNECTION_REFUSED",
             "Connection refused. The port number might be incorrect or MySQL is not running."),
       Entry("1045", "AUTHENTICATION_FAILED",
             "Access denied. The username or password is incorrect."),
       Entry("1044", "PERMISSION_DENIED",
             "Access denied to database. User lacks required permissions."),
       Entry("1049", "DATABASE_NOT_FOUND",
             "The specified database does not exist. Please check the database name."),
       Entry("1042", "INVALID_HOST",
             "Unable to connect to MySQL server through TCP/IP. Check hostname and network."),
       Entry("1251", "AUTHENTICATION_FAILED",
             "Client authentication method is not supported. Check authentication settings."),
       Entry("1040", "MAX_CONNECTIONS",
             "Too many connections. Maximum connection limit reached.") >>

\* OracleErrorHandler._init_error_patterns
OraclePatterns ==
    << Entry("ORA-12545", "INVALID_HOST",
             "Unable to connect. The host address appears to be incorrect."),
       Entry("ORA-12541", "CONNECTION_REFUSED",
             "No listener. The port number might be incorrect or the listener is not running."),
       Entry("ORA-01017", "AUTHENTICATION_FAILED",
             "Invalid username or password. Please check your credentials."),
       Entry("ORA-12505", "DATABASE_NOT_FOUND",
             "Database (SID) does not exist. Please check the database name/SID."),
       Entry("ORA-01031", "PERMISSION_DENIED",
             "Insufficient privileges. User lacks required permissions."),
       Entry("ORA-12170", "TIMEOUT",
             "Connect timeout occurred. Check network and database availability."),
       Entry("ORA-12514", "DATABASE_NOT_FOUND",
             "Service name not found. Please verify the database service name."),
       Entry("ORA-12504", "DATABASE_NOT_FOUND",
             "TNS Listener was not given the SERVICE_NAME. Check database configuration."),
       Entry("ORA-12520", "MAX_CONNECTIONS",
             "Maximum number of connections exceeded. Try again later.") >>

KwEntry(k, p, cat, m) == [code |-> k, pat |-> p, category |-> cat, message |-> m]

\* ErrorHandler._init_error_keywords, in the order of the dict; each
\* keyword is a regular expression, and its error code is
\* "KEYWORD_" + keyword.upper().replace(' ', '_').
ErrorKeywords ==
    << KwEntry("KEYWORD_COULD_NOT_CONNECT_TO_SERVER", <<Lit({"could not connect to server"})>>,
               "CONNECTION_REFUSED",
               "Unable to connect to the database server. Please verify the host and port."),
       KwEntry("KEYWORD_NETWORK_UNREACHABLE", <<Lit({"network unreachable"})>>, "INVALID_HOST",
               "Network is unreachable. The host address appears to be incorrect."),
       KwEntry("KEYWORD_CONNECTION_REFUSED", <<Lit({"connection refused"})>>, "CONNECTION_REFUSED",
               "Connection refused. The port number might be incorrect or the server is not running."),
       KwEntry("KEYWORD_INVALID_PORT", <<Lit({"invalid port"})>>, "INVALID_PORT",
               "The specified port number is invalid or incorrect."),
       KwEntry("KEYWORD_PASSWORD_AUTHENTICATION_FAILED", <<Lit({"password authentication failed"})>>,
               "AUTHENTICATION_FAILED", "The provided password is incorrect."),
       KwEntry("KEYWORD_ROLE_.*_DOES_NOT_EXIST", <<Lit({"role "}), AnyStar, Lit({" does not exist"})>>,
               "AUTHENTICATION_FAILED", "The specified username does not exist."),
       KwEntry("KEYWORD_DATABASE_.*_DOES_NOT_EXIST", <<Lit({"database "}), AnyStar, Lit({" does not exist"})>>,
               "DATABASE_NOT_FOUND", "The specified database does not exist."),
       KwEntry("KEYWORD_HOST_.*_IS_NOT_ALLOWED", <<Lit({"host "}), AnyStar, Lit({" is not allowed"})>>,
               "PERMISSION_DENIED",
               "Connection not allowed from this host. Check host-based authentication configuration."),
       KwEntry("KEYWORD_TIMEOUT_EXPIRED", <<Lit({"timeout expired"})>>, "TIMEOUT",
               "Connection timed out. The server might be down or there are network issues."),
       KwEntry("KEYWORD_SSL_REQUIRED", <<Lit({"ssl required"})>>, "CONNECTION_REFUSED",
               "SSL connection is required. Please enable SSL or check SSL configuration.") >>

Engines == {"mysql", "postgresql", "oracle", "mariadb"}

\* DatabaseErrorFactory.get_handler(db_type): the handler's code table.
ErrorPatterns(db_type) ==
    CASE db_type = "postgresql" -> PostgreSQLPatterns
      [] db_type = "oracle" -> OraclePatterns
      [] OTHER -> MySQLPatterns

UnknownMessage == "Failed to connect to the database. Please verify all connection details."

\* get_error with the keyword loop before the code loop.
GetErrorKeywordsFirst(db_type, error_msg) ==
    LET low == LowerText(error_msg)
        tab == ErrorPatterns(db_type)
        codes == {n \in DOMAIN tab : \E i \in DOMAIN low : low[i] = Lower(tab[n].code)}
        kws == {n \in DOMAIN ErrorKeywords : ReSearch(ErrorKeywords[n].pat, low)}
    IN  IF kws # {}
        THEN [category |-> ErrorKeywords[Min(kws)].category,
              message |-> ErrorKeywords[Min(kws)].message,
              error_code |-> ErrorKeywords[Min(kws)].code, details |-> error_msg]
        ELSE IF codes # {}
        THEN [category |-> tab[Min(codes)].category, message |-> tab[Min(codes)].message,
              error_code |-> tab[Min(codes)].code, details |-> error_msg]
        ELSE [category |-> "UNKNOWN", message |-> UnknownMessage,
              error_code |-> "UNKNOWN", details |-> error_msg]

\* ErrorHandler.get_error(error_msg)
GetError(db_type, error_msg) ==
    LET low == LowerText(error_msg)
        tab == ErrorPatterns(db_type)
        codes == {n \in DOMAIN tab : \E i \in DOMAIN low : low[i] = Lower(tab[n].code)}
        kws == {n \in DOMAIN ErrorKeywords : ReSearch(ErrorKeywords[n].pat, low)}
    IN  IF codes # {}
        THEN [category |-> tab[Min(codes)].category, message |-> tab[Min(codes)].message,
              error_code |-> tab[Min(codes)].code, details |-> error_msg]
        ELSE IF kws # {}
        THEN [category |-> ErrorKeywords[Min(kws)].category,
              message |-> ErrorKeywords[Min(kws)].message,
              error_code |-> ErrorKeywords[Min(kws)].code, details |-> error_msg]
        ELSE [category |-> "UNKNOWN", message |-> UnknownMessage,
              error_code |-> "UNKNOWN", details |-> error_msg]

\* ------------------------------------------------------------------------
\* Inputs of the gateway and the engines behind it
\* ------------------------------------------------------------------------
Owners == {1, 2}

\* DatabaseService.NAME_PATTERN.match(name): ^[a-zA-Z0-9_-]+$
NamePatternMatches(name) == name \in {"prod", "dev"}

Names == {"prod", "bad name"}

EngineTags == Engines \cup {"sqlite"}

Passwords == {"secret", "wrong"}

Configs == {[host |-> "db1", port |-> "3306", username |-> "app",
             password |-> pw, database |-> "shop"] : pw \in Passwords}

\* The password the engines accept.
TruePassword == "secret"

\* re.sub(r'[;\'\"\\]', '', value) on one configuration value.
StripDangerous(v) ==
    CASE v = "se;cret" -> "secret"
      [] v = "db1;" -> "db1"
      [] OTHER -> v

\* normalize_config(db_type, config) and DatabaseConnector._sanitize_config:
\* every string value loses its dangerous characters.
NormalizeConfig(db_type, config) ==
    [f \in DOMAIN config |-> StripDangerous(config[f])]

\* settings.FERNET_ENCRYPTION_KEY.  The specifications of the gateway take
\* the key as supplied to the two codec functions; class Settings of
\* config.py declares no field of this name, which RoundTrip (specification
\* SpecFunctions) models as the code stands.
FernetKey == "FERNET_ENCRYPTION_KEY"

\* json.dumps / json.loads of a configuration record
JsonDumps(config) == <<"json", config>>

JsonLoads(text) == text[2]

\* A configuration column written as it came, without encrypt_config.
PlainConfig(config) == config

\* encrypt_config(config): the Fernet token of the serialised record.
EncryptConfig(config) == [fernet |-> FernetKey, payload |-> JsonDumps(config)]

\* decrypt_config(token)
DecryptConfig(token) ==
    IF token.fernet = FernetKey THEN Ok(JsonLoads(token.payload))
    ELSE Raise("InvalidToken", <<>>)

\* What a driver answers: success, or the text of its error.
Success == [ok |-> TRUE, err |-> <<>>]

Failure(text) == [ok |-> FALSE, err |-> text]

AuthError(db_type) ==
    CASE db_type = "postgresql" ->
            <<"FATAL:  ", "password authentication failed", " for user app">>
      [] db_type = "oracle" -> <<"ORA-01017", ": invalid username/password; logon denied">>
      [] OTHER -> <<"1045", " (", "28000", "): Access denied for user app">>

RefusedError(db_type) ==
    CASE db_type = "postgresql" ->
            <<"could not connect to server", ": ", "Connection refused">>
      [] db_type = "oracle" -> <<"ORA-12541", ": TNS:no listener">>
      [] OTHER -> <<"2003", ": Can't connect to MySQL server on db1">>

OtherError == <<"unexpected driver failure">>

SyntaxError == <<"syntax error near the statement">>

\* The answers connect() can get for a configuration.
ConnectOutcomes(db_type, config) ==
    IF NormalizeConfig(db_type, config).password = TruePassword
    THEN {Success, Failure(RefusedError(db_type)), Failure(OtherError)}
    ELSE {Failure(AuthError(db_type)), Failure(RefusedError(db_type))}

\* The answers cursor.execute() can get.
ExecOutcomes == {Success, Failure(SyntaxError)}

\* ------------------------------------------------------------------------
\* The steps a call performs, in order
\* ------------------------------------------------------------------------
Ev(e, q) == [e |-> e, q |-> q]

\* get_connector(db_type, config): the connector is built on the
\* normalized configuration, which the factory writes to the debug log.
GetConnector(db_type, config) ==
    <<Ev("get_connector", <<>>),
      Ev("logger.debug", [db_type |-> db_type, config |-> NormalizeConfig(db_type, config)])>>

\* A driver handle: the physical cursor and connection behind it.
OpenHandle == [cursor |-> "open", connection |-> "open"]

\* cursor.close() / connection.close() on handle h of handles: the driver
\* closes the resource, or raises.
CloseCursor(handles, h, raises) ==
    [handles EXCEPT ![h].cursor = IF raises THEN "close failed" ELSE "closed"]

CloseConnection(handles, h, raises) ==
    [handles EXCEPT ![h].connection = IF raises THEN "close failed" ELSE "closed"]

\* DatabaseConnector.disconnect() on a connector whose references are
\* cursor and connection (0 is None, h > 0 the handle opened h-th): the
\* two closes share one try block, the references are reset in finally.
Disconnect(cursor, connection, handles, cursor_raises, connection_raises) ==
    LET h1 == IF cursor # 0 THEN CloseCursor(handles, cursor, cursor_raises) ELSE handles
        h2 == IF cursor # 0 /\ cursor_raises THEN h1
              ELSE IF connection # 0 THEN CloseConnection(h1, connection, connection_raises)
              ELSE h1
    IN  [cursor |-> 0, connection |-> 0, handles |-> h2]

\* The keyword arguments connect() gives the driver, as far as they decide
\* the two session settings: MySQL/MariaDB merge the security parameters
\* over the caller's configuration, PostgreSQL puts its options after the
\* configuration, Oracle passes neither setting.  A setting the call does
\* not pass keeps the driver's default.
SessionSettings(db_type, config) ==
    LET passed ==
            CASE db_type \in {"mysql", "mariadb"} ->
                    [allow_local_infile |-> "False"] @@ config
              [] db_type = "postgresql" ->
                    [options |-> "-c statement_timeout=30000"] @@ config
              [] OTHER -> [username |-> config.username, password |-> config.password]
    IN  [local_infile |->
             IF "allow_local_infile" \in DOMAIN passed
             THEN (IF passed.allow_local_infile = "False" THEN "disabled" ELSE "enabled")
             ELSE "driver default",
         statement_timeout |->
             IF "options" \in DOMAIN passed THEN passed.options ELSE "driver default"]

\* connect() of the engine's connector on a connector without connection.
\* stage says how far the driver lets it come: "refused" (the driver's
\* connect raises), "no cursor" (the connection is open, the next call of
\* connect raises), "session" (Oracle: connection and cursor are open, an
\* ALTER SESSION raises), "open".  What was assigned to self.connection and
\* self.cursor before the exception stays assigned.
EngineConnect(db_type, config, stage, handles) ==
    LET h == Len(handles) + 1
        settings == SessionSettings(db_type, config)
        handle(cur) == [cursor |-> cur, connection |-> "open", session |-> settings,
                        queries |-> 0]
    IN  CASE stage = "refused" ->
               [ok |-> FALSE, cursor |-> 0, connection |-> 0, handles |-> handles]
          [] stage = "no cursor" ->
               [ok |-> FALSE, cursor |-> 0, connection |-> h,
                handles |-> Append(handles, handle("none"))]
          [] stage = "session" ->
               [ok |-> FALSE, cursor |-> h, connection |-> h,
                handles |-> Append(handles, handle("open"))]
          [] OTHER ->
               [ok |-> TRUE, cursor |-> h, connection |-> h,
                handles |-> Append(handles, handle("open"))]

\* execute_query without its call of _validate_query: the text goes to the
\* cursor as it came.
ExecuteQueryUnvalidated(query, connected, co, xo) ==
    LET pre == IF connected THEN <<>> ELSE <<Ev("connect", <<>>)>> IN
    IF ~connected /\ ~co.ok
    THEN [events |-> pre, res |-> Raise("DriverError", co.err)]
    ELSE IF ~xo.ok
    THEN [events |-> pre \o <<Ev("cursor.execute", query)>>,
          res |-> Raise("DriverError", xo.err)]
    ELSE [events |-> pre \o <<Ev("cursor.execute", query)>>, res |-> Ok("rows")]

\* DatabaseConnector.execute_query(query, params) on a connector whose
\* connection is open (connected) or not: connect if needed, validate,
\* execute.
ConnectorExecuteQuery(query, connected, co, xo) ==
    LET pre == IF connected THEN <<>> ELSE <<Ev("connect", <<>>)>> IN
    IF ~connected /\ ~co.ok
    THEN [events |-> pre, res |-> Raise("DriverError", co.err)]
    ELSE CHOOSE r \in
           {IF ~v.ok
            THEN [events |-> pre \o <<Ev("validate_reject", query)>>, res |-> v]
            ELSE IF ~xo.ok
            THEN [events |-> pre \o <<Ev("validate_ok", query), Ev("cursor.execute", query)>>,
                  res |-> Raise("DriverError", xo.err)]
            ELSE [events |-> pre \o <<Ev("validate_ok", query), Ev("cursor.execute", query)>>,
                  res |-> Ok("rows")]
            : v \in {ValidateQuery(query)}} : TRUE

\* DatabaseService._validate_database_type(db_type)
ValidateDatabaseType(db_type) ==
    IF db_type \in Engines THEN Ok(<<>>)
    ELSE Raise("ValueError", <<"Unsupported database type. Allowed types: ",
                               "mysql, postgresql, oracle, mariadb">>)

\* DatabaseService._validate_name(name)
ValidateName(name) ==
    IF NamePatternMatches(name) THEN Ok(<<>>)
    ELSE Raise("ValueError",
               <<"Invalid database name. Use only letters, numbers, underscores, and hyphens.">>)

\* The category an exception of test_connection carries: the classes are
\* built from the message alone, so BaseDatabaseError's default stays.
RaisedCategory(res) == "UNKNOWN"

\* The exception test_connection raises for a failure text.
ClassifiedError(db_type, text) ==
    LET error == GetError(db_type, text) IN
    IF error.category = "AUTHENTICATION_FAILED"
    THEN Raise("DatabaseAuthenticationError", <<error.message>>)
    ELSE IF error.category = "CONNECTION_REFUSED"
    THEN Raise("DatabaseConnectionError", <<error.message>>)
    ELSE Raise("DatabaseConfigError", <<error.message>>)

\* DatabaseService.test_connection(db_type, config)
TestConnection(db_type, config, co, xo) ==
    IF ~ValidateDatabaseType(db_type).ok
    THEN [events |-> <<>>,
          res |-> Raise("ValueError", <<"Unsupported database type: ", db_type>>)]
    ELSE IF ~co.ok
    THEN [events |-> GetConnector(db_type, config)
                     \o <<Ev("connect", <<>>), Ev("disconnect", <<>>)>>,
          res |-> ClassifiedError(db_type, co.err)]
    ELSE CHOOSE r \in
           {LET ev == GetConnector(db_type, config) \o <<Ev("connect", <<>>)>> \o x.events
                      \o <<Ev("disconnect", <<>>)>>
            IN  IF x.res.ok THEN [events |-> ev, res |-> Ok(TRUE)]
                ELSE [events |-> ev, res |-> ClassifiedError(db_type, x.res.msg)]
            : x \in {ConnectorExecuteQuery(SelectOne, TRUE, co, xo)}} : TRUE

\* ------------------------------------------------------------------------
\* The definition store and the service's operations on it
\* ------------------------------------------------------------------------
NoRow == [id |-> 0]

\* A store without the (user_id, name) lookup and constraint.
NoRowsOf(db, user_id, name) == {}

\* The definitions of owner user_id named name.
RowsOf(db, user_id, name) == {r \in db : r.user_id = user_id /\ r.name = name}

\* A definition stored with the model's column default is_active=True
\* whatever the connectivity test answered.
NewEntryDefaultActive(nid, user_id, name, db_type, encrypted_config, connection_successful) ==
    [id |-> nid, user_id |-> user_id, name |-> name, database_type |-> db_type,
     configuration |-> encrypted_config, is_active |-> TRUE,
     last_connected_at |-> "NULL"]

\* Database(user_id=..., name=..., database_type=..., configuration=...,
\* is_active=connection_successful): last_connected_at is not set.
NewEntry(nid, user_id, name, db_type, encrypted_config, connection_successful) ==
    [id |-> nid, user_id |-> user_id, name |-> name, database_type |-> db_type,
     configuration |-> encrypted_config, is_active |-> connection_successful,
     last_connected_at |-> "NULL"]

\* The status message create_database returns.
CreateStatusMessage(name, connection_successful, connection_error_message) ==
    <<"Database '", name, "' created successfully">>
    \o (IF connection_successful THEN <<>>
        ELSE <<" but connection test failed: ">> \o connection_error_message)

\* DatabaseService.create_database(user_id, db_data) on the store db whose
\* next primary key is nid.
CreateDatabase(db, nid, user_id, name, db_type, config, co, xo) ==
    LET Fail(ev, m) ==
            [databases |-> db, next_id |-> nid, events |-> ev \o <<Ev("rollback", <<>>)>>,
             res |-> Raise("DatabaseConfigError", <<"Failed to create database: ">> \o m)]
    IN  IF ~ValidateName(name).ok THEN Fail(<<>>, ValidateName(name).msg)
        ELSE IF ~ValidateDatabaseType(db_type).ok
        THEN Fail(<<>>, ValidateDatabaseType(db_type).msg)
        ELSE CHOOSE r \in
               {LET entry == NewEntry(nid, user_id, name, db_type, EncryptConfig(config),
                                      t.res.ok)
                IN  IF RowsOf(db, user_id, name) # {}
                    THEN Fail(t.events \o <<Ev("encrypt_config", <<>>), Ev("rollback", <<>>)>>,
                              <<"Database name '", name, "' already exists">>)
                    ELSE [databases |-> db \cup {entry}, next_id |-> nid + 1,
                          events |-> t.events
                                     \o <<Ev("encrypt_config", <<>>), Ev("commit", <<>>)>>,
                          res |-> Ok([database |-> entry,
                                      message |-> CreateStatusMessage(name, t.res.ok,
                                                                      t.res.msg)])]
                : t \in {TestConnection(db_type, config, co, xo)}} : TRUE

\* sql_query.strip() is empty
IsBlank(q) == \A i \in DOMAIN q : q[i] \in WS

\* DatabaseService.execute_query(database, sql_query, params)
ServiceExecuteQuery(database, sql_query, co, xo) ==
    IF IsBlank(sql_query)
    THEN [events |-> <<>>,
          res |-> Raise("DatabaseQueryError",
                        <<"Query execution failed: ", "Empty or invalid SQL query">>)]
    ELSE CHOOSE r \in
           {LET ev == <<Ev("decrypt_config", <<>>)>>
                      \o GetConnector(database.database_type,
                                      DecryptConfig(database.configuration).val)
                      \o x.events \o <<Ev("disconnect", <<>>)>>
            IN  IF x.res.ok
                THEN [events |-> ev, res |-> Ok([results |-> "rows", query |-> sql_query])]
                ELSE [events |-> ev,
                      res |-> Raise("DatabaseQueryError",
                                    <<"Query execution failed: ">> \o x.res.msg)]
            : x \in {ConnectorExecuteQuery(sql_query, FALSE, co, xo)}} : TRUE

\* DatabaseService.extract_database_schema(database): the catalog queries
\* of get_schema answer so.
ExtractDatabaseSchema(database, co, so) ==
    LET ev == <<Ev("decrypt_config", <<>>)>>
              \o GetConnector(database.database_type, DecryptConfig(database.configuration).val)
              \o <<Ev("connect", <<>>)>>
    IN
    IF ~co.ok
    THEN [events |-> ev \o <<Ev("disconnect", <<>>)>>,
          res |-> Raise("SchemaExtractionError", <<"Failed to extract schema: ">> \o co.err)]
    ELSE IF ~so.ok
    THEN [events |-> ev \o <<Ev("get_schema", <<>>), Ev("disconnect", <<>>)>>,
          res |-> Raise("SchemaExtractionError", <<"Failed to extract schema: ">> \o so.err)]
    ELSE [events |-> ev \o <<Ev("get_schema", <<>>), Ev("disconnect", <<>>)>>,
          res |-> Ok("schema")]

\* A DatabaseUpdate whose optional fields are unset: None and the empty
\* string are both false in "if update_data.new_name".
NoName == ""

NoType == ""

NoConfig == [unset |-> TRUE]

\* update_database: whether it runs the connectivity test.
UpdateTests(u) == u.configuration # NoConfig \/ u.database_type # NoType

\* A test of the stored configuration even when the request brings one.
StoredTestConfig(u, existing) == DecryptConfig(existing.configuration).val

\* update_database: test_config
TestConfig(u, existing) ==
    IF u.configuration # NoConfig THEN u.configuration
    ELSE DecryptConfig(existing.configuration).val

\* update_database: test_type
TestType(u, existing) ==
    IF u.database_type # NoType THEN u.database_type ELSE existing.database_type

\* update_database up to the connectivity test: the exception text of the
\* validation, lookup or name-conflict check that stops it, <<>> if none.
UpdateStopsWith(db, user_id, u) ==
    IF u.new_name # NoName /\ ~ValidateName(u.new_name).ok THEN ValidateName(u.new_name).msg
    ELSE IF u.database_type # NoType /\ ~ValidateDatabaseType(u.database_type).ok
    THEN ValidateDatabaseType(u.database_type).msg
    ELSE IF RowsOf(db, user_id, u.database_name) = {}
    THEN <<"Database '", u.database_name, "' not found">>
    ELSE IF /\ u.new_name # NoName
            /\ u.new_name # u.database_name
            /\ RowsOf(db, user_id, u.new_name) # {}
    THEN <<"Database name '", u.new_name, "' already exists">>
    ELSE <<>>

\* The row update_database writes: the requested fields, and the
\* connection status when the test ran.
UpdatedEntry(existing, u, connection_successful) ==
    [existing EXCEPT
       !.name = IF u.new_name # NoName THEN u.new_name ELSE @,
       !.database_type = IF u.database_type # NoType THEN u.database_type ELSE @,
       !.configuration = IF u.configuration # NoConfig THEN EncryptConfig(u.configuration)
                         ELSE @,
       !.is_active = IF UpdateTests(u) THEN connection_successful ELSE @,
       !.last_connected_at = IF UpdateTests(u) /\ connection_successful THEN "now" ELSE @]

\* The status message update_database returns.
UpdateStatusMessage(u, connection_successful, connection_error_message) ==
    IF connection_successful
    THEN <<"Database '", u.database_name, "' updated successfully">>
         \o (IF UpdateTests(u) THEN <<" and connection test passed">> ELSE <<>>)
    ELSE <<"Database '", u.database_name, "' updated but connection test failed: ">>
         \o connection_error_message

\* UniqueConstraint('user_id', 'name') at the commit of row into others.
UniqueViolation(others, row) ==
    \E r \in others : r.user_id = row.user_id /\ r.name = row.name

\* update_database whose commit goes through although the unique constraint
\* is violated, the error being reported all the same.
UpdateDatabaseNoRollback(db, user_id, u, co, xo, raced) ==
    LET Fail(ev, m) ==
            [databases |-> db, events |-> ev \o <<Ev("rollback", <<>>)>>,
             res |-> Raise("DatabaseConfigError", <<"Failed to update database: ">> \o m)]
    IN  IF UpdateStopsWith(db, user_id, u) # <<>>
        THEN Fail(<<>>, UpdateStopsWith(db, user_id, u))
        ELSE CHOOSE r \in
               {LET t == IF UpdateTests(u)
                         THEN TestConnection(TestType(u, existing), TestConfig(u, existing),
                                             co, xo)
                         ELSE [events |-> <<>>, res |-> Ok(TRUE)]
                IN  CHOOSE r2 \in
                      {LET ev == (IF UpdateTests(u) /\ u.configuration = NoConfig
                                  THEN <<Ev("decrypt_config", <<>>)>> ELSE <<>>)
                                 \o tt.events
                                 \o (IF u.configuration # NoConfig
                                     THEN <<Ev("encrypt_config", <<>>)>> ELSE <<>>)
                           updated == UpdatedEntry(existing, u, tt.res.ok)
                           others == (db \cup raced) \ {existing}
                       IN  IF UniqueViolation(others, updated)
                           THEN [databases |-> others \cup {updated},
                                 events |-> ev,
                                 res |-> Raise("ValueError",
                                               <<"Database update failed due to integrity constraint">>)]
                           ELSE [databases |-> others \cup {updated},
                                 events |-> ev \o <<Ev("commit", <<>>)>>,
                                 res |-> Ok([database |-> updated,
                                             message |-> UpdateStatusMessage(u, tt.res.ok,
                                                                             tt.res.msg)])]
                       : tt \in {t}} : TRUE
                : existing \in {CHOOSE e \in RowsOf(db, user_id, u.database_name) : TRUE}} : TRUE

\* DatabaseService.update_database(user_id, update_data) on the store db;
\* raced holds the rows other sessions commit between this call's name
\* check and its own commit.
UpdateDatabase(db, user_id, u, co, xo, raced) ==
    LET Fail(ev, m) ==
            [databases |-> db, events |-> ev \o <<Ev("rollback", <<>>)>>,
             res |-> Raise("DatabaseConfigError", <<"Failed to update database: ">> \o m)]
    IN  IF UpdateStopsWith(db, user_id, u) # <<>>
        THEN Fail(<<>>, UpdateStopsWith(db, user_id, u))
        ELSE CHOOSE r \in
               {LET t == IF UpdateTests(u)
                         THEN TestConnection(TestType(u, existing), TestConfig(u, existing),
                                             co, xo)
                         ELSE [events |-> <<>>, res |-> Ok(TRUE)]
                IN  CHOOSE r2 \in
                      {LET ev == (IF UpdateTests(u) /\ u.configuration = NoConfig
                                  THEN <<Ev("decrypt_config", <<>>)>> ELSE <<>>)
                                 \o tt.events
                                 \o (IF u.configuration # NoConfig
                                     THEN <<Ev("encrypt_config", <<>>)>> ELSE <<>>)
                           updated == UpdatedEntry(existing, u, tt.res.ok)
                           others == (db \cup raced) \ {existing}
                       IN  IF UniqueViolation(others, updated)
                           THEN [databases |-> db \cup raced,
                                 events |-> ev \o <<Ev("rollback", <<>>)>>,
                                 res |-> Raise("ValueError",
                                               <<"Database update failed due to integrity constraint">>)]
                           ELSE [databases |-> others \cup {updated},
                                 events |-> ev \o <<Ev("commit", <<>>)>>,
                                 res |-> Ok([database |-> updated,
                                             message |-> UpdateStatusMessage(u, tt.res.ok,
                                                                             tt.res.msg)])]
                       : tt \in {t}} : TRUE
                : existing \in {CHOOSE e \in RowsOf(db, user_id, u.database_name) : TRUE}} : TRUE

\* delete_database whose lookup filters on the name alone.
DeleteDatabaseOfAnyOwner(db, user_id, database_name) ==
    IF ~ValidateName(database_name).ok
    THEN [databases |-> db, events |-> <<Ev("rollback", <<>>)>>, res |-> ValidateName(database_name)]
    ELSE IF {r \in db : r.name = database_name} = {}
    THEN [databases |-> db, events |-> <<Ev("rollback", <<>>)>>,
          res |-> Raise("ValueError", <<"Database '", database_name, "' not found">>)]
    ELSE [databases |-> db \ {r \in db : r.name = database_name},
          events |-> <<Ev("delete", <<>>), Ev("commit", <<>>)>>,
          res |-> Ok(<<"Database '", database_name, "' has been successfully deleted">>)]

\* DatabaseService.delete_database(user_id, database_name)
DeleteDatabase(db, user_id, database_name) ==
    IF ~ValidateName(database_name).ok
    THEN [databases |-> db, events |-> <<Ev("rollback", <<>>)>>, res |-> ValidateName(database_name)]
    ELSE IF RowsOf(db, user_id, database_name) = {}
    THEN [databases |-> db, events |-> <<Ev("rollback", <<>>)>>,
          res |-> Raise("ValueError", <<"Database '", database_name, "' not found">>)]
    ELSE [databases |-> db \ RowsOf(db, user_id, database_name),
          events |-> <<Ev("delete", <<>>), Ev("commit", <<>>)>>,
          res |-> Ok(<<"Database '", database_name, "' has been successfully deleted">>)]

\* DatabaseService.get_database_by_name(user_id, database_name)
GetDatabaseByName(db, user_id, database_name) ==
    IF ~ValidateName(database_name).ok THEN ValidateName(database_name)
    ELSE IF RowsOf(db, user_id, database_name) = {}
    THEN Raise("ValueError", <<"Database '", database_name, "' not found">>)
    ELSE Ok(CHOOSE r \in RowsOf(db, user_id, database_name) : TRUE)

\* DatabaseService.get_user_databases(user_id)
GetUserDatabases(db, user_id) == {r \in db : r.user_id = user_id}

\* query_database without its check of database.is_active.
IgnoresInactive(database) == FALSE

\* query_database: whether the handler stops at the inactive definition.
RejectsInactive(database) == ~database.is_active

\* The user id the handlers of the controller pass to the service.
ControllerUserId == 2

\* The SQL texts the generator may answer.
GeneratedTexts ==
    {SelectOne, SelectOne \o <<";">>, SelectOne \o <<";", ";">>,
     SelectUsers \o <<";", " ">> \o DropUsers \o <<";">>,
     SelectOne \o <<";", "\n">> \o SelectOne,
     DropUsers, ExecProc,
     SelectWhere \o <<" ", "OR", " ", "1", "=", "1">>}

\* ------------------------------------------------------------------------
\* State
\* ------------------------------------------------------------------------
VARIABLES
    databases,   \* the definition store: the rows of table "databases"
    next_id,     \* the next primary key of the store
    pc,          \* where the request in progress stands
    call,        \* the inputs of the service call that was made last
    ctx,         \* query_database's locals: the loaded definition, the SQL text
    events,      \* the steps the request in progress has performed, in order
    response,    \* what the request in progress returns to its caller
    vquery,      \* the text under validation
    vstage,      \* how far the validation of vquery has come
    vsan,        \* the outcome of QueryValidator.validate_and_sanitize_query
    vconn,       \* the outcome of DatabaseConnector._validate_query
    cursor,      \* a connector's self.cursor: 0 (None) or the handle it refers to
    connection,  \* a connector's self.connection: 0 (None) or its handle
    handles,     \* the driver handles opened so far and what is still open
    sessions     \* per concurrent update request: its ORM session's locals

vars == <<databases, next_id, pc, call, ctx, events, response, vquery, vstage, vsan, vconn,
          cursor, connection, handles, sessions>>

gatewayVars == <<databases, next_id, pc, call, ctx, events, response>>

validationVars == <<vquery, vstage, vsan, vconn>>

connectorVars == <<cursor, connection, handles>>

\* The update requests that are served at the same time, each by its own
\* handler with its own session (get_db).
Requests == {1, 2}

NoCall == [op |-> "none"]

NoCtx == [database |-> NoRow, sql |-> <<>>]

NoResponse == [op |-> "none", status |-> 0, kind |-> "", detail |-> <<>>, value |-> <<>>]

NoRes == [ok |-> FALSE, exc |-> "none", msg |-> <<>>, val |-> <<>>]

Response(op, status, kind, detail, value) ==
    [op |-> op, status |-> status, kind |-> kind, detail |-> detail, value |-> value]

GatewayInit ==
    /\ databases = {}
    /\ next_id = 1
    /\ pc = "idle"
    /\ call = NoCall
    /\ ctx = NoCtx
    /\ events = <<>>
    /\ response = NoResponse

ValidationOff ==
    /\ vquery = <<>>
    /\ vstage = "off"
    /\ vsan = NoRes
    /\ vconn = NoRes

\* DatabaseConnector.__init__: no cursor, no connection
ConnectorInit ==
    /\ cursor = 0
    /\ connection = 0
    /\ handles = <<>>

Init ==
    /\ GatewayInit
    /\ ValidationOff
    /\ ConnectorInit
    /\ sessions = [p \in Requests |-> [pc |-> "idle"]]

\* ------------------------------------------------------------------------
\* Operations of the gateway
\* ------------------------------------------------------------------------
\* POST /create -> DatabaseService.create_database
Create(user_id, name, db_type, config, co, xo) ==
    /\ pc = "idle"
    /\ \E r \in {CreateDatabase(databases, next_id, user_id, name, db_type, config, co, xo)} :
       /\ Cardinality(r.databases) <= MaxDefs
       /\ databases' = r.databases
       /\ next_id' = r.next_id
       /\ events' = <<Ev("logger.info", [name |-> name, database_type |-> db_type,
                                          configuration |-> config])>> \o r.events
       /\ response' = IF r.res.ok
                      THEN Response("create", 200, "", r.res.val.message, r.res.val.database)
                      ELSE Response("create", 400, r.res.exc, r.res.msg, NoRow)
    /\ call' = [op |-> "create", user_id |-> user_id, name |-> name, db_type |-> db_type,
                config |-> config, co |-> co, xo |-> xo]
    /\ pc' = "done"
    /\ UNCHANGED <<ctx, validationVars, connectorVars, sessions>>

\* POST /ask, first part: look the definition up and check its active flag.
Ask(name) ==
    /\ pc = "idle"
    /\ LET found == RowsOf(databases, ControllerUserId, name)
           row == IF found = {} THEN NoRow ELSE CHOOSE r \in found : TRUE
       IN  /\ ctx' = [database |-> row, sql |-> <<>>]
           /\ events' = <<Ev("get_database_by_name", <<>>)>>
           /\ IF ~ValidateName(name).ok
              THEN /\ pc' = "done"
                   /\ response' = Response("ask", 400, "ValueError", ValidateName(name).msg, <<>>)
              ELSE IF found = {}
              THEN /\ pc' = "done"
                   /\ response' = Response("ask", 400, "ValueError",
                                           <<"Database '", name, "' not found">>, <<>>)
              ELSE IF RejectsInactive(row)
              THEN /\ pc' = "done"
                   /\ response' = Response("ask", 400, "HTTPException",
                                           <<"Database '", name, "' is currently inactive. ",
                                             "Please check the connection settings and reactivate the database.">>,
                                           <<>>)
              ELSE /\ pc' = "schema"
                   /\ response' = NoResponse
    /\ call' = [op |-> "ask", name |-> name]
    /\ UNCHANGED <<databases, next_id, validationVars, connectorVars, sessions>>

\* POST /ask, second part: DatabaseService.extract_database_schema
ExtractSchema(co, so) ==
    /\ pc = "schema"
    /\ co \in ConnectOutcomes(ctx.database.database_type,
                              DecryptConfig(ctx.database.configuration).val)
    /\ \E r \in {ExtractDatabaseSchema(ctx.database, co, so)} :
       /\ events' = events \o r.events
       /\ IF r.res.ok
          THEN pc' = "generate" /\ response' = NoResponse
          ELSE pc' = "done" /\ response' = Response("ask", 500, r.res.exc, r.res.msg, <<>>)
    /\ UNCHANGED <<databases, next_id, call, ctx, validationVars, connectorVars, sessions>>

\* POST /ask, third part: DatabaseService.generate_sql_query; the generator
\* answers text.
GenerateSql(text) ==
    /\ pc = "generate"
    /\ \E v \in {ValidateAndSanitizeQuery(text)} :
       IF v.ok
       THEN /\ events' = events \o <<Ev("generate_sql_query", text), Ev("sanitize_ok", text)>>
            /\ ctx' = [ctx EXCEPT !.sql = v.val]
            /\ pc' = "process"
            /\ response' = NoResponse
       ELSE /\ events' = events \o <<Ev("generate_sql_query", text), Ev("sanitize_reject", text)>>
            /\ ctx' = [ctx EXCEPT !.sql = text]
            /\ pc' = "done"
            /\ response' = Response("ask", 400, "ValueError",
                                    <<"Failed to generate SQL query: ">> \o v.msg, <<>>)
    /\ UNCHANGED <<databases, next_id, call, validationVars, connectorVars, sessions>>

\* POST /ask, fourth part: DatabaseService.process_query up to its call of
\* execute_query.
ProcessQuery ==
    /\ pc = "process"
    /\ \E v \in {ValidateAndSanitizeQuery(ctx.sql)} :
       IF v.ok
       THEN /\ events' = events \o <<Ev("process_query", ctx.sql), Ev("sanitize_ok", ctx.sql)>>
            /\ ctx' = [ctx EXCEPT !.sql = v.val]
            /\ pc' = "execute"
            /\ response' = NoResponse
       ELSE /\ events' = events \o <<Ev("process_query", ctx.sql), Ev("sanitize_reject", ctx.sql)>>
            /\ ctx' = ctx
            /\ pc' = "done"
            /\ response' = Response("ask", 500, v.exc, <<"Error processing database query">>, <<>>)
    /\ UNCHANGED <<databases, next_id, call, validationVars, connectorVars, sessions>>

\* An execute_query that records the outcome on the definition: a failed
\* query marks it inactive.
ExecuteQueryMarking(co, xo) ==
    /\ pc = "execute"
    /\ co \in ConnectOutcomes(ctx.database.database_type,
                              DecryptConfig(ctx.database.configuration).val)
    /\ \E r \in {ServiceExecuteQuery(ctx.database, ctx.sql, co, xo)} :
       /\ events' = events \o r.events
       /\ response' = IF r.res.ok THEN Response("ask", 200, "", <<>>, r.res.val)
                      ELSE Response("ask", 400, r.res.exc, r.res.msg, <<>>)
       /\ databases' = {IF row = ctx.database THEN [row EXCEPT !.is_active = r.res.ok]
                        ELSE row : row \in databases}
    /\ pc' = "done"
    /\ UNCHANGED <<next_id, call, ctx, validationVars, connectorVars, sessions>>

\* POST /ask, last part: DatabaseService.execute_query and the answer.
ExecuteQuery(co, xo) ==
    /\ pc = "execute"
    /\ co \in ConnectOutcomes(ctx.database.database_type,
                              DecryptConfig(ctx.database.configuration).val)
    /\ \E r \in {ServiceExecuteQuery(ctx.database, ctx.sql, co, xo)} :
       /\ events' = events \o r.events
       /\ response' = IF r.res.ok THEN Response("ask", 200, "", <<>>, r.res.val)
                      ELSE Response("ask", 400, r.res.exc, r.res.msg, <<>>)
    /\ pc' = "done"
    /\ UNCHANGED <<databases, next_id, call, ctx, validationVars, connectorVars, sessions>>

\* The response leaves; the worker takes the next request.
Reply ==
    /\ pc = "done"
    /\ pc' = "idle"
    /\ call' = NoCall
    /\ ctx' = NoCtx
    /\ events' = <<>>
    /\ response' = NoResponse
    /\ UNCHANGED <<databases, next_id, validationVars, connectorVars, sessions>>


\* ------------------------------------------------------------------------
\* Management of the definitions
\* ------------------------------------------------------------------------
StoreNames == {"prod", "dev", "bad name"}

StoreEngineTags == {"mysql", "postgresql", "sqlite"}

\* The answers the engine can give to the connectivity test of config.
TestOutcomes(db_type, config) ==
    {[co |-> co, xo |-> xo] :
        co \in ConnectOutcomes(db_type, config), xo \in ExecOutcomes}
    \ {o \in [co : ConnectOutcomes(db_type, config), xo : ExecOutcomes] :
          ~o.co.ok /\ ~o.xo.ok}

NoTest == [co |-> Success, xo |-> Success]

\* PUT /update -> DatabaseService.update_database
Update(user_id, u, co, xo, raced) ==
    /\ pc = "idle"
    /\ \E r \in {UpdateDatabase(databases, user_id, u, co, xo, raced)} :
       /\ databases' = r.databases
       /\ events' = r.events
       /\ response' = IF r.res.ok
                      THEN Response("update", 200, "", r.res.val.message, r.res.val.database)
                      ELSE IF r.res.exc = "ValueError"
                      THEN Response("update", 400, r.res.exc, r.res.msg, NoRow)
                      ELSE Response("update", 500, r.res.exc,
                                    <<"Error updating database configuration">>, NoRow)
    /\ next_id' = next_id + Cardinality(raced)
    /\ call' = [op |-> "update", user_id |-> user_id, u |-> u, co |-> co, xo |-> xo,
                raced |-> raced]
    /\ pc' = "done"
    /\ UNCHANGED <<ctx, validationVars, connectorVars, sessions>>

\* DELETE /delete -> DatabaseService.delete_database
Delete(user_id, name) ==
    /\ pc = "idle"
    /\ \E r \in {DeleteDatabase(databases, user_id, name)} :
       /\ databases' = r.databases
       /\ events' = r.events
       /\ response' = IF r.res.ok THEN Response("delete", 200, "", r.res.val, <<>>)
                      ELSE Response("delete", 400, r.res.exc, r.res.msg, <<>>)
    /\ call' = [op |-> "delete", user_id |-> user_id, name |-> name]
    /\ pc' = "done"
    /\ UNCHANGED <<next_id, ctx, validationVars, connectorVars, sessions>>

\* The HTTP status test_database_connection answers to an exception.
TestStatus(exc) ==
    CASE exc = "DatabaseAuthenticationError" -> 401
      [] exc = "DatabaseConnectionError" -> 503
      [] exc = "DatabaseConfigError" -> 400
      [] OTHER -> 500

\* POST /test -> DatabaseService.test_connection
TestDatabaseConnection(db_type, config, co, xo) ==
    /\ pc = "idle"
    /\ \E r \in {TestConnection(db_type, config, co, xo)} :
       /\ events' = r.events
       /\ response' = IF r.res.ok
                      THEN Response("test", 200, "", <<"Database connection successful">>, <<>>)
                      ELSE IF TestStatus(r.res.exc) = 500
                      THEN Response("test", 500, r.res.exc,
                                    <<"Error testing database connection">>, <<>>)
                      ELSE Response("test", TestStatus(r.res.exc), r.res.exc, r.res.msg, <<>>)
    /\ call' = [op |-> "test", db_type |-> db_type, config |-> config, co |-> co, xo |-> xo]
    /\ pc' = "done"
    /\ UNCHANGED <<databases, next_id, ctx, validationVars, connectorVars, sessions>>

\* POST /details -> DatabaseService.get_database_by_name
GetDatabaseDetails(name) ==
    /\ pc = "idle"
    /\ \E r \in {GetDatabaseByName(databases, ControllerUserId, name)} :
       /\ events' = <<Ev("get_database_by_name", <<>>)>>
       /\ response' = IF r.ok THEN Response("details", 200, "", <<>>, r.val)
                      ELSE Response("details", 404, r.exc, r.msg, <<>>)
    /\ call' = [op |-> "details", name |-> name]
    /\ pc' = "done"
    /\ UNCHANGED <<databases, next_id, ctx, validationVars, connectorVars, sessions>>

\* GET /names -> DatabaseService.get_user_databases
GetUserDatabasesNames ==
    /\ pc = "idle"
    /\ events' = <<Ev("get_user_databases", <<>>)>>
    /\ response' = Response("names", 200, "", <<>>,
                            {[name |-> r.name, database_type |-> r.database_type,
                              is_active |-> r.is_active,
                              last_connected_at |-> r.last_connected_at] :
                                r \in GetUserDatabases(databases, ControllerUserId)})
    /\ call' = [op |-> "names"]
    /\ pc' = "done"
    /\ UNCHANGED <<databases, next_id, ctx, validationVars, connectorVars, sessions>>

\* The rows a concurrent create of the same owner can commit between the
\* name check of a rename and its commit.
RacedRows(user_id, u) ==
    IF /\ ~UpdateTests(u)
       /\ u.new_name # NoName
       /\ UpdateStopsWith(databases, user_id, u) = <<>>
       /\ RowsOf(databases, user_id, u.new_name) = {}
       /\ next_id <= MaxIds
    THEN {{}, {NewEntry(next_id, user_id, u.new_name, "mysql",
                        EncryptConfig(CHOOSE c \in Configs : c.password = TruePassword), TRUE)}}
    ELSE {{}}

\* The answers of the engine an update can meet.
UpdateOutcomes(user_id, u) ==
    IF UpdateTests(u) /\ UpdateStopsWith(databases, user_id, u) = <<>>
    THEN LET existing == CHOOSE e \in RowsOf(databases, user_id, u.database_name) : TRUE
         IN  TestOutcomes(TestType(u, existing), TestConfig(u, existing))
    ELSE {NoTest}

Next ==
    \/ \E user_id \in Owners, name \in Names, db_type \in EngineTags, config \in Configs :
          \E co \in ConnectOutcomes(db_type, config), xo \in ExecOutcomes :
             Create(user_id, name, db_type, config, co, xo)
    \/ \E name \in Names : Ask(name)
    \/ \E co \in {Success, Failure(OtherError)} \cup {Failure(RefusedError(e)) : e \in Engines}
                 \cup {Failure(AuthError(e)) : e \in Engines},
          so \in ExecOutcomes : ExtractSchema(co, so)
    \/ \E text \in GeneratedTexts : GenerateSql(text)
    \/ ProcessQuery
    \/ \E co \in {Success, Failure(OtherError)} \cup {Failure(RefusedError(e)) : e \in Engines}
                 \cup {Failure(AuthError(e)) : e \in Engines},
          xo \in ExecOutcomes : ExecuteQuery(co, xo)
    \/ \E db_type \in EngineTags, config \in Configs :
          \E o \in TestOutcomes(db_type, config) :
             TestDatabaseConnection(db_type, config, o.co, o.xo)
    \/ \E name \in Names : GetDatabaseDetails(name)
    \/ GetUserDatabasesNames
    \/ Reply

Spec == Init /\ [][Next]_vars

\* DatabaseUpdate(database_name, new_name, database_type, configuration)
UpdateData(database_name, new_name, db_type, config) ==
    [database_name |-> database_name, new_name |-> new_name,
     database_type |-> db_type, configuration |-> config]

StoreNext ==
    \/ /\ next_id <= MaxIds
       /\ \E user_id \in Owners, name \in StoreNames, db_type \in {"mysql", "sqlite"},
             config \in Configs :
             \E o \in TestOutcomes(db_type, config) :
                Create(user_id, name, db_type, config, o.co, o.xo)
    \/ \E database_name \in StoreNames \ {"bad name"}, new_name \in {NoName} \cup StoreNames,
          db_type \in {NoType} \cup StoreEngineTags, config \in {NoConfig} \cup Configs :
          \E o \in UpdateOutcomes(ControllerUserId,
                                  UpdateData(database_name, new_name, db_type, config)),
             raced \in RacedRows(ControllerUserId,
                                 UpdateData(database_name, new_name, db_type, config)) :
             Update(ControllerUserId, UpdateData(database_name, new_name, db_type, config),
                    o.co, o.xo, raced)
    \/ \E user_id \in Owners, name \in StoreNames : Delete(user_id, name)
    \/ \E name \in StoreNames : GetDatabaseDetails(name)
    \/ GetUserDatabasesNames
    \/ Reply

SpecStore == Init /\ [][StoreNext]_vars

\* ------------------------------------------------------------------------
\* Two update requests at the same time (specification SpecRace)
\* ------------------------------------------------------------------------
\* update_database of request p up to its connection test: the checks and
\* the SELECT that loads existing_db into the request's session.
LoadRow(p, u) ==
    /\ sessions[p].pc = "idle"
    /\ sessions' = [sessions EXCEPT ![p] =
          IF UpdateStopsWith(databases, ControllerUserId, u) # <<>>
          THEN [pc |-> "failed", u |-> u]
          ELSE [pc |-> "loaded", u |-> u,
                existing_db |-> CHOOSE e \in RowsOf(databases, ControllerUserId,
                                                    u.database_name) : TRUE]]
    /\ UNCHANGED <<gatewayVars, validationVars, connectorVars>>

\* The connection test of request p, on the values of its request and of
\* the row as it loaded it; o is what the engine answers.
TestRow(p, o) ==
    /\ sessions[p].pc = "loaded"
    /\ sessions' = [sessions EXCEPT ![p] =
          [pc |-> "tested", u |-> @.u, existing_db |-> @.existing_db,
           test_type |-> TestType(@.u, @.existing_db),
           test_config |-> TestConfig(@.u, @.existing_db),
           connection_successful |-> o.co.ok /\ o.xo.ok]]
    /\ UNCHANGED <<gatewayVars, validationVars, connectorVars>>

\* The field writes of request p and its commit: the flush is an UPDATE of
\* the row with the loaded primary key that sets the columns whose value in
\* the session differs from the loaded one; the other columns keep what the
\* store holds by now.
CommitRow(p) ==
    /\ sessions[p].pc = "tested"
    /\ \E cur \in {r \in databases : r.id = sessions[p].existing_db.id} :
       \E mine \in {UpdatedEntry(sessions[p].existing_db, sessions[p].u,
                                 sessions[p].connection_successful)} :
          databases' = (databases \ {cur}) \cup
             {[col \in DOMAIN cur |->
                  IF mine[col] # sessions[p].existing_db[col] THEN mine[col] ELSE cur[col]]}
    /\ sessions' = [sessions EXCEPT ![p].pc = "committed"]
    /\ UNCHANGED <<next_id, pc, call, ctx, events, response, validationVars, connectorVars>>

\* One definition is created, then the requests update it.
RaceNext ==
    \/ \E config \in Configs : \E o \in TestOutcomes("mysql", config) :
          /\ \A p \in Requests : sessions[p].pc = "idle"
          /\ Create(ControllerUserId, "prod", "mysql", config, o.co, o.xo)
    \/ \E p \in Requests, db_type \in {NoType, "postgresql"}, config \in {NoConfig} \cup Configs :
          /\ databases # {}
          /\ UpdateTests(UpdateData("prod", NoName, db_type, config))
          /\ LoadRow(p, UpdateData("prod", NoName, db_type, config))
    \/ \E p \in Requests :
          /\ sessions[p].pc = "loaded"
          /\ \E o \in TestOutcomes(TestType(sessions[p].u, sessions[p].existing_db),
                                   TestConfig(sessions[p].u, sessions[p].existing_db)) :
                TestRow(p, o)
    \/ \E p \in Requests : CommitRow(p)

SpecRace == Init /\ [][RaceNext]_vars

\* ------------------------------------------------------------------------
\* One connector's life (specification SpecConnector)
\* ------------------------------------------------------------------------
\* connect(): the driver opens a connection and a cursor on it.
Connect ==
    /\ connection = 0
    /\ Len(handles) < MaxConnects
    /\ handles' = Append(handles, OpenHandle)
    /\ connection' = Len(handles) + 1
    /\ cursor' = Len(handles) + 1
    /\ UNCHANGED <<gatewayVars, validationVars, sessions>>

\* disconnect()
DisconnectCall(cursor_raises, connection_raises) ==
    /\ \E r \in {Disconnect(cursor, connection, handles, cursor_raises, connection_raises)} :
       /\ cursor' = r.cursor
       /\ connection' = r.connection
       /\ handles' = r.handles
    /\ UNCHANGED <<gatewayVars, validationVars, sessions>>

\* One of test_connection (database_service.py), DatabaseService.execute_query
\* and extract_schema: the call builds its connector, works with it inside
\* try and disconnects in finally.  work says how the work after a
\* successful connect ends: "rejected" (the connector's validation raises
\* before the cursor is used), "engine error" (cursor.execute raises), "ok".
Operation(op, db_type, config, stage, work, cursor_raises, connection_raises) ==
    /\ connection = 0
    /\ Len(handles) < MaxOperations
    /\ \E c \in {EngineConnect(db_type, config, stage, handles)} :
       \E used \in {IF c.ok /\ work # "rejected"
                    THEN [c.handles EXCEPT ![c.connection].queries = 1]
                    ELSE c.handles} :
       \E d \in {Disconnect(c.cursor, c.connection, used, cursor_raises, connection_raises)} :
          /\ cursor' = d.cursor
          /\ connection' = d.connection
          /\ handles' = d.handles
          /\ events' = <<Ev("get_connector", <<>>), Ev("connect", <<>>)>>
                       \o (IF ~c.ok THEN <<>>
                           ELSE IF work = "rejected" THEN <<Ev("validate_reject", <<>>)>>
                           ELSE <<Ev("cursor.execute", <<>>)>>)
                       \o <<Ev("disconnect", <<>>)>>
          /\ call' = [op |-> op, db_type |-> db_type, stage |-> stage, work |-> work,
                      handle |-> c.connection]
    /\ UNCHANGED <<databases, next_id, pc, ctx, response, validationVars, sessions>>

ConnectorNext ==
    \/ Connect
    \/ \E cursor_raises \in BOOLEAN, connection_raises \in BOOLEAN :
          DisconnectCall(cursor_raises, connection_raises)

SpecConnector == Init /\ [][ConnectorNext]_vars

\* ------------------------------------------------------------------------
\* The operations that use a connector (specification SpecOperation)
\* ------------------------------------------------------------------------
\* Every operation on every engine, with configurations that do and do not
\* try to set the session settings themselves, with connect() raising at
\* each of its stages, and with each close raising or not.
OperationNext ==
    \E op \in {"test_connection", "execute_query", "extract_schema"},
       db_type \in Engines,
       config \in {x \in Configs : x.password = TruePassword}
                  \cup {[allow_local_infile |-> "True",
                         options |-> "-c statement_timeout=0"] @@ x :
                           x \in {y \in Configs : y.password = TruePassword}} :
       \E stage \in {"refused", "no cursor", "open"}
                    \cup (IF db_type = "oracle" THEN {"session"} ELSE {}),
          work \in {"ok", "engine error"}
                   \cup (IF op = "execute_query" THEN {"rejected"} ELSE {}),
          cursor_raises \in BOOLEAN, connection_raises \in BOOLEAN :
          Operation(op, db_type, config, stage, work, cursor_raises, connection_raises)

SpecOperation == Init /\ [][OperationNext]_vars

\* ------------------------------------------------------------------------
\* The classifier, the codec and the identifier filter on their inputs
\* (specification SpecFunctions)
\* ------------------------------------------------------------------------
\* DatabaseErrorFactory.get_handler(db_type).get_error(error_msg)
ClassifyError(db_type, error_msg) ==
    /\ call' = [op |-> "get_error", db_type |-> db_type, error_msg |-> error_msg]
    /\ response' = Response("get_error", 0, "", <<>>, GetError(db_type, error_msg))
    /\ UNCHANGED <<databases, next_id, pc, ctx, events, validationVars, connectorVars,
                   sessions>>

\* The fields class Settings declares; settings.<name> of any other name
\* raises AttributeError.
SettingsFields ==
    {"ENVIRONMENT", "SENDGRID_FROM_EMAIL", "SENDGRID_API_KEY", "DATABASE_USERNAME",
     "DATABASE_PASSWORD", "DATABASE_HOST", "DATABASE_PORT", "DATABASE_NAME",
     "GEMINI_API_KEY", "AES_SECRET_KEY", "RECAPTCHA_SECRET_KEY", "JWT_SECRET_KEY",
     "JWT_ALGORITHM", "ACCESS_TOKEN_EXPIRE_MINUTES", "REFRESH_TOKEN_EXPIRE_DAYS",
     "GOOGLE_CLIENT_ID", "GOOGLE_CLIENT_SECRET", "GOOGLE_REDIRECT_URI",
     "GOOGLE_TOKEN_VERIFY_URL", "FRONTEND_URL"}

\* decrypt_config(encrypt_config(config)) with the settings object of
\* config.py: both functions start with Fernet(settings.FERNET_ENCRYPTION_KEY).
RoundTrip(config) ==
    /\ call' = [op |-> "round_trip", config |-> config]
    /\ response' =
          IF FernetKey \notin SettingsFields
          THEN Response("round_trip", 0, "AttributeError",
                        <<"'Settings' object has no attribute '", FernetKey, "'">>, <<>>)
          ELSE Response("round_trip", 0, "", <<>>,
                        DecryptConfig(EncryptConfig(config)).val)
    /\ UNCHANGED <<databases, next_id, pc, ctx, events, validationVars, connectorVars,
                   sessions>>

\* _sanitize_identifier with the hyphen added to the character class.
SanitizeIdentifierKeepsHyphen(identifier) ==
    /\ call' = [op |-> "sanitize_identifier", identifier |-> identifier]
    /\ LET InClass(ch) == ch \in {"t", "B", "7", "_", "-"}
           sanitized == SelectSeq(identifier, InClass)
       IN  response' =
             IF sanitized = <<>>
             THEN Response("sanitize_identifier", 0, "ValueError",
                           <<"Invalid SQL identifier">>, <<>>)
             ELSE Response("sanitize_identifier", 0, "", <<>>, sanitized)
    /\ UNCHANGED <<databases, next_id, pc, ctx, events, validationVars, connectorVars,
                   sessions>>

\* DatabaseConnector._sanitize_identifier(identifier): the identifier is a
\* sequence of characters; re.sub(r'[^a-zA-Z0-9_]', '', identifier) keeps
\* the characters of the class, an empty result raises ValueError.
SanitizeIdentifier(identifier) ==
    /\ call' = [op |-> "sanitize_identifier", identifier |-> identifier]
    /\ LET InClass(ch) == ch \in {"t", "B", "7", "_"}
           sanitized == SelectSeq(identifier, InClass)
       IN  response' =
             IF sanitized = <<>>
             THEN Response("sanitize_identifier", 0, "ValueError",
                           <<"Invalid SQL identifier">>, <<>>)
             ELSE Response("sanitize_identifier", 0, "", <<>>, sanitized)
    /\ UNCHANGED <<databases, next_id, pc, ctx, events, validationVars, connectorVars,
                   sessions>>

\* Error texts are made of vendor codes, keyword phrases and other text;
\* configurations are those of the gateway, also with a value the JSON
\* encoder has to escape; identifiers are made of characters inside and
\* outside the class [a-zA-Z0-9_].  A behaviour applies one function to
\* one input.
FunctionsNext ==
    \/ \E db_type \in Engines, n \in 1..MaxFragments :
          \E error_msg \in [1..n -> {"1045", "2003", "28P01", "08006", "ORA-01017",
                                     "ORA-12541", "Connection refused",
                                     "password authentication failed",
                                     " for user app@db"}] :
             call.op = "none" /\ ClassifyError(db_type, error_msg)
    \/ \E config \in Configs \cup {[c EXCEPT !.password = "se;cret"] : c \in Configs} :
          call.op = "none" /\ RoundTrip(config)
    \/ \E n \in 0..MaxIdentifier :
          \E identifier \in [1..n -> {"t", "B", "7", "_", ";", "-", " ", "é"}] :
             call.op = "none" /\ SanitizeIdentifier(identifier)

SpecFunctions == Init /\ [][FunctionsNext]_vars

\* ------------------------------------------------------------------------
\* The two validators applied to every text of Texts
\* ------------------------------------------------------------------------
ValidationInit ==
    /\ GatewayInit
    /\ vquery \in Texts
    /\ vstage = "input"
    /\ vsan = NoRes
    /\ vconn = NoRes
    /\ ConnectorInit
    /\ sessions = [p \in Requests |-> [pc |-> "idle"]]

\* QueryValidator.validate_and_sanitize_query(vquery)
ApplyQueryValidator ==
    /\ vstage = "input"
    /\ vsan' = ValidateAndSanitizeQuery(vquery)
    /\ vstage' = "sanitized"
    /\ UNCHANGED <<vquery, vconn, gatewayVars, connectorVars, sessions>>

\* DatabaseConnector._validate_query(vquery)
ApplyConnectorValidation ==
    /\ vstage = "sanitized"
    /\ vconn' = ValidateQuery(vquery)
    /\ vstage' = "validated"
    /\ UNCHANGED <<vquery, vsan, gatewayVars, connectorVars, sessions>>

ValidationNext == ApplyQueryValidator \/ ApplyConnectorValidation

SpecValidation == ValidationInit /\ [][ValidationNext]_vars

\* ------------------------------------------------------------------------
\* Properties of the gateway (specification Spec)
\* ------------------------------------------------------------------------
Contains(seq, x) == \E i \in DOMAIN seq : seq[i] = x

\* The step named e with payload q is in the sequence of steps ev.
Happened(ev, e, q) == \E i \in DOMAIN ev : ev[i].e = e /\ ev[i].q = q

EventNames(from, to) == {events[j].e : j \in from..to}

\* Positions of the events named e.
Positions(e) == {i \in DOMAIN events : events[i].e = e}

\* C1: in the query pipeline a text that validation rejects is rejected
\* before the connector is touched: between the entry into process_query and
\* the rejection no connector is constructed and no connection is opened.
C1_RejectedBeforeConnectorTouched ==
    \A p \in Positions("process_query") :
       \A i \in Positions("validate_reject") \cup Positions("sanitize_reject") :
          i > p => EventNames(p, i) \cap {"get_connector", "connect"} = {}

\* C2: every text a connector's execute_query hands to the cursor passed
\* that connector's own validation in the same call, just before; after a
\* failed validation the call hands nothing to the cursor.
C2_CursorOnlyAfterOwnValidation ==
    /\ \A i \in Positions("cursor.execute") :
          /\ i > 1
          /\ events[i - 1].e = "validate_ok"
          /\ events[i - 1].q = events[i].q
          /\ ValidateQuery(events[i].q).ok
    /\ \A i \in Positions("validate_reject") :
          /\ ~ValidateQuery(events[i].q).ok
          /\ "cursor.execute" \notin EventNames(i, Len(events))

C2_Witness_Executed ==
    /\ pc = "done"
    /\ call.op = "ask"
    /\ response.status = 200
    /\ Happened(events, "sanitize_ok", ctx.sql)
    /\ Happened(events, "cursor.execute", ctx.sql)

\* C3: a query against a definition whose active flag is false ends at once
\* with the 'inactive' error: nothing is decrypted, no connector is built,
\* neither schema extraction nor SQL generation starts, nothing connects.
C3_InactiveRejectedImmediately ==
    (call.op = "ask" /\ ctx.database # NoRow /\ ~ctx.database.is_active) =>
        /\ pc = "done"
        /\ response.status = 400
        /\ Contains(response.detail, "' is currently inactive. ")
        /\ EventNames(1, Len(events)) = {"get_database_by_name"}

C3_Witness_InactiveAsked ==
    /\ call.op = "ask"
    /\ ctx.database # NoRow
    /\ ~ctx.database.is_active
    /\ ctx.database.user_id = ControllerUserId
    /\ response.status = 400

\* Whether the connectivity test of the create call in c succeeded.
TestSucceeded(c) == c.co.ok /\ c.xo.ok

\* The classified message of the failure the create call in c met.
FailureMessage(c) ==
    GetError(c.db_type, IF c.co.ok THEN c.xo.err ELSE c.co.err).message

\* C4: create with a valid name, a supported engine and a name the owner has
\* not used stores exactly one new definition whatever the connectivity test
\* answers; its active flag is true iff the test succeeded, and after a
\* failed test the status message contains the classified failure message.
C4_CreatePersistsOne ==
    [][(/\ pc = "idle"
        /\ call'.op = "create"
        /\ ValidateName(call'.name).ok
        /\ call'.db_type \in Engines
        /\ RowsOf(databases, call'.user_id, call'.name) = {})
       => /\ response'.status = 200
          /\ databases \subseteq databases'
          /\ Cardinality(databases' \ databases) = 1
          /\ \A row \in databases' \ databases :
                /\ row = response'.value
                /\ row.user_id = call'.user_id
                /\ row.name = call'.name
                /\ row.database_type = call'.db_type
                /\ DecryptConfig(row.configuration).val = call'.config
                /\ row.is_active = TestSucceeded(call')
                /\ ~TestSucceeded(call') => Contains(response'.detail, FailureMessage(call'))
      ]_vars

C4_Witness_StoredInactive ==
    /\ pc = "done"
    /\ call.op = "create"
    /\ response.status = 200
    /\ response.value \in databases
    /\ ~response.value.is_active
    /\ call.db_type = "mysql"
    /\ call.co = Failure(AuthError(call.db_type))
    /\ Contains(response.detail, "Access denied. The username or password is incorrect.")

\* C6: for every supported engine, a text with more than one ';' that
\* validation rejects surfaces at the gateway as an error of the security
\* kind (SQLInjectionError), not as the ordinary query-execution error.
C6_MultiSemicolonSecurityKind ==
    (/\ pc = "done"
     /\ call.op = "ask"
     /\ ctx.database # NoRow
     /\ ctx.database.database_type \in Engines
     /\ CountSemis(ctx.sql) > 1
     /\ Positions("validate_reject") \cup Positions("sanitize_reject") # {})
    => /\ response.status # 200
       /\ response.kind = "SQLInjectionError"

\* ------------------------------------------------------------------------
\* Properties of the validators (specification SpecValidation)
\* ------------------------------------------------------------------------
\* Whether both validation stages let vquery through to the cursor.
ReachesCursor == vsan.ok /\ vconn.ok

\* C5: validation rejects every text that does not resolve to exactly one
\* statement, however its statements are separated.
C5_OneStatementOnly ==
    (vstage = "validated" /\ NumStatements(vquery) # 1) => ~ReachesCursor

\* C7: validation rejects a statement with a keyword outside the allow-list
\* wherever the keyword stands: top level, WHERE clause, parentheses.
C7_AllowListAtAnyDepth ==
    (/\ vstage = "validated"
     /\ vquery # <<>>
     /\ AllKeywords(FirstStatement(vquery)) \ ALLOWED_OPERATIONS # {})
    => ~vconn.ok

\* C8: validate_and_sanitize_query rejects every statement whose type is
\* not SELECT, the type UNKNOWN included.
C8_OnlySelectType ==
    (/\ vstage \in {"sanitized", "validated"}
     /\ vquery # <<>>
     /\ GetType(FirstStatement(vquery)) # "SELECT")
    => ~vsan.ok

\* C9: both validate_and_sanitize_query and the connector's validation
\* reject every text with the predicate OR 1=1, in any casing and spacing.
C9_TautologyRejectedByBoth ==
    (vstage = "validated" /\ vquery \in TautologyTexts) => (~vsan.ok /\ ~vconn.ok)

\* The well-formed single SELECT statements with allow-listed keywords and
\* no comment, bare or with one terminating ';'.
WellFormedSelects == SelectStatements \cup {q \o <<";">> : q \in SelectStatements}

\* C10: both stages accept every well-formed single SELECT statement, with
\* or without one terminating ';', and return it unchanged.
C10_WellFormedAccepted ==
    (vstage = "validated" /\ vquery \in WellFormedSelects)
    => (vsan.ok /\ vconn.ok /\ vsan.val = vquery)

\* ------------------------------------------------------------------------
\* Errors, logs and what reaches the caller (specification Spec)
\* ------------------------------------------------------------------------
Range(seq) == {seq[i] : i \in DOMAIN seq}

\* The pieces of text the engine drivers put into their errors.
DriverTexts ==
    UNION ({Range(AuthError(e)) : e \in Engines} \cup {Range(RefusedError(e)) : e \in Engines}
           \cup {Range(OtherError), Range(SyntaxError)})

\* C11: whatever the operation and the driver failure, the error that
\* reaches the caller holds a classified message only, never a piece of the
\* driver's own error text.
C11_NoRawDriverText ==
    pc = "done" => Range(response.detail) \cap DriverTexts = {}

\* C12: the deny-list pattern that made validation reject a query never
\* appears in the response the caller of the query operation gets.
C12_PatternNotExposed ==
    (pc = "done" /\ call.op = "ask") =>
        Range(response.detail) \cap {DANGEROUS_PATTERNS[n].src : n \in DOMAIN DANGEROUS_PATTERNS}
        = {}

\* The configuration records a log line carries.
LoggedConfigs(ev) ==
    IF ev.e = "logger.debug" THEN {ev.q.config}
    ELSE IF ev.e = "logger.info" THEN {ev.q.configuration}
    ELSE {}

\* C13: no operation writes a decrypted configuration (host, user,
\* password, database) to a log or returns it in a response.
C13_ConfigNeverLoggedOrReturned ==
    /\ \A i \in DOMAIN events : LoggedConfigs(events[i]) \cap Configs = {}
    /\ (pc = "done" /\ response.op = "details" /\ response.status = 200)
          => response.value.configuration \notin Configs

\* ------------------------------------------------------------------------
\* The definition store
\* ------------------------------------------------------------------------
\* C14: the configuration of every stored definition is an output of
\* encrypt_config (a token that decrypts to a configuration), never a
\* plaintext configuration record.
C14_ConfigurationEncrypted ==
    \A row \in databases :
       /\ DOMAIN row.configuration = {"fernet", "payload"}
       /\ row.configuration \notin Configs
       /\ DecryptConfig(row.configuration).ok
       /\ DecryptConfig(row.configuration).val \in Configs

C14_Witness_UpdatedConfiguration ==
    /\ pc = "done"
    /\ call.op = "update"
    /\ call.u.configuration \in Configs
    /\ response.status = 200
    /\ response.value \in databases
    /\ DecryptConfig(response.value.configuration).val = call.u.configuration

\* C15: only create, update (and delete) change the definition store: the
\* connectivity test, the query pipeline with its schema extraction, the
\* listing and the lookup leave every stored definition as it was, whatever
\* their outcome.
C15_ReadsLeaveStore ==
    [][call'.op \notin {"create", "update", "delete"} => databases' = databases]_vars

C15_Witness_FailedQueryStillActive ==
    /\ pc = "done"
    /\ call.op = "ask"
    /\ response.status = 400
    /\ response.kind = "DatabaseQueryError"
    /\ ctx.database \in databases
    /\ ctx.database.is_active

\* C16: update tests the connection iff the request brings a configuration
\* or an engine; the test runs on the new value of what the request brings
\* and the stored value of the rest; the requested fields are stored
\* whatever the test answers and the active flag becomes the test's
\* outcome; a rename alone tests nothing and keeps the active flag and the
\* last-connected time.
C16_UpdateRetests ==
    [][(/\ pc = "idle"
        /\ call'.op = "update"
        /\ call'.raced = {}
        /\ UpdateStopsWith(databases, call'.user_id, call'.u) = <<>>)
       => LET u == call'.u
              old == CHOOSE r \in databases :
                        r.user_id = call'.user_id /\ r.name = u.database_name
              tests == u.configuration # NoConfig \/ u.database_type # NoType
              type == IF u.database_type # NoType THEN u.database_type ELSE old.database_type
              config == IF u.configuration # NoConfig THEN u.configuration
                        ELSE DecryptConfig(old.configuration).val
              new == response'.value
          IN  /\ response'.status = 200
              /\ databases' = (databases \ {old}) \cup {new}
              /\ tests <=> Happened(events', "connect", <<>>)
              /\ tests => Happened(events', "logger.debug",
                                   [db_type |-> type,
                                    config |-> NormalizeConfig(type, config)])
              /\ new.id = old.id /\ new.user_id = old.user_id
              /\ new.name = IF u.new_name # NoName THEN u.new_name ELSE old.name
              /\ new.database_type = type
              /\ DecryptConfig(new.configuration).val = config
              /\ new.is_active = IF tests THEN TestSucceeded(call') ELSE old.is_active
              /\ ~tests => new.last_connected_at = old.last_connected_at
      ]_vars

C16_Witness_EngineChangedTestFailed ==
    /\ pc = "done"
    /\ call.op = "update"
    /\ call.u.configuration = NoConfig
    /\ call.u.database_type = "postgresql"
    /\ call.u.new_name = "dev"
    /\ response.status = 200
    /\ response.value \in databases
    /\ response.value.name = "dev"
    /\ ~response.value.is_active
    /\ ~TestSucceeded(call)

\* C17: no two stored definitions of one owner have the same name, after
\* any creates, renames (also those racing with a create) and deletes; two
\* owners may use the same name.
C17_NameUniquePerOwner ==
    \A r1 \in databases, r2 \in databases :
       (r1.user_id = r2.user_id /\ r1.name = r2.name) => r1 = r2

C17_Witness_RenameLostRace ==
    /\ pc = "done"
    /\ call.op = "update"
    /\ call.raced # {}
    /\ call.raced \subseteq databases
    /\ response.status = 400
    /\ Contains(response.detail, "Database update failed due to integrity constraint")

\* C18: create or update with an invalid name, an unsupported engine tag or
\* a name the owner already uses fails with DatabaseConfigError before any
\* network I/O: no connector is built, no test is run, nothing is stored.
C18_RejectedBeforeNetwork ==
    [][(/\ pc = "idle"
        /\ \/ /\ call'.op = "create"
              /\ \/ ~ValidateName(call'.name).ok
                 \/ ~ValidateDatabaseType(call'.db_type).ok
                 \/ \E r \in databases : r.user_id = call'.user_id /\ r.name = call'.name
           \/ /\ call'.op = "update"
              /\ \/ call'.u.new_name # NoName /\ ~ValidateName(call'.u.new_name).ok
                 \/ call'.u.database_type # NoType
                    /\ ~ValidateDatabaseType(call'.u.database_type).ok
                 \/ /\ call'.u.new_name \notin {NoName, call'.u.database_name}
                    /\ \E r \in databases :
                          r.user_id = call'.user_id /\ r.name = call'.u.new_name)
       => /\ response'.kind = "DatabaseConfigError"
          /\ databases' = databases
          /\ \A i \in DOMAIN events' : events'[i].e \notin {"get_connector", "connect"}
      ]_vars

\* ------------------------------------------------------------------------
\* Classification of connection failures (specification Spec)
\* ------------------------------------------------------------------------
\* C19: a connectivity test that fails at its connection attempt surfaces
\* an error of the connection kind that carries the category the classifier
\* gave to the failure; it is never a DatabaseConfigError.
C19_ConnectionKindWithCategory ==
    (/\ pc = "done"
     /\ call.op = "test"
     /\ call.db_type \in Engines
     /\ ~call.co.ok)
    => /\ response.kind \in {"DatabaseConnectionError", "DatabaseAuthenticationError"}
       /\ RaisedCategory(TestConnection(call.db_type, call.config, call.co, call.xo).res)
          = GetError(call.db_type, call.co.err).category

\* ------------------------------------------------------------------------
\* Release of the driver's resources (specification SpecConnector)
\* ------------------------------------------------------------------------
\* C20: once disconnect() has returned, close was called on the cursor and
\* on the connection the connector held, also when closing the cursor
\* raised; the references are None.
C20_DisconnectReleasesBoth ==
    \A h \in DOMAIN handles :
       (connection # h /\ cursor # h) =>
           (handles[h].cursor # "open" /\ handles[h].connection # "open")

\* ------------------------------------------------------------------------
\* Operations and their connector (specification SpecOperation)
\* ------------------------------------------------------------------------
\* C21: each of test_connection, execute_query and extract_schema builds
\* exactly one connector and tries to connect at most once; when it returns,
\* on every path, no connection and no cursor it opened is still open and
\* the connector refers to none.
C21_OneConnectorClosedOnReturn ==
    call.op \in {"test_connection", "execute_query", "extract_schema"} =>
        /\ Cardinality(Positions("get_connector")) = 1
        /\ Cardinality(Positions("connect")) <= 1
        /\ cursor = 0 /\ connection = 0
        /\ \A h \in DOMAIN handles :
              handles[h].cursor # "open" /\ handles[h].connection # "open"

\* C27: on every engine, a session on which a query has been executed has
\* the fixed statement timeout and has local-file access disabled, whatever
\* the caller's configuration says about the two settings.
C27_SessionLimitsBeforeFirstQuery ==
    \A h \in DOMAIN handles :
       handles[h].queries > 0 =>
           /\ handles[h].session.statement_timeout = "-c statement_timeout=30000"
           /\ handles[h].session.local_infile = "disabled"

\* ------------------------------------------------------------------------
\* Concurrent updates of one definition (specification SpecRace)
\* ------------------------------------------------------------------------
\* C22: when two update calls on one definition have both committed,
\* however their steps interleaved, the stored definition is what the two
\* updates give when run one after the other: its engine and configuration
\* are a pair that one of the two connection tests was run on, and its
\* active flag is the outcome of that test.
C22_UpdatesSerializable ==
    (\A p \in Requests : sessions[p].pc = "committed") =>
        \A row \in databases :
           \E p \in Requests :
              /\ sessions[p].test_type = row.database_type
              /\ sessions[p].test_config = DecryptConfig(row.configuration).val
              /\ sessions[p].connection_successful = row.is_active


\* ------------------------------------------------------------------------
\* The error classifier (specification SpecFunctions)
\* ------------------------------------------------------------------------
\* The rows of the engine's code table whose code occurs in the text.
CodesIn(db_type, error_msg) ==
    {n \in DOMAIN ErrorPatterns(db_type) :
        \E i \in DOMAIN error_msg : Lower(error_msg[i]) = Lower(ErrorPatterns(db_type)[n].code)}

\* C23: an error text that carries a vendor code of the engine's table (the
\* code the driver puts first) is classified as the category the table
\* gives that code, whatever other text follows it.
C23_CodeDecidesCategory ==
    call.op = "get_error" =>
        \A n \in DOMAIN ErrorPatterns(call.db_type) :
           ErrorPatterns(call.db_type)[n].code = call.error_msg[1] =>
               response.value.category = ErrorPatterns(call.db_type)[n].category

DatabaseErrorCategories ==
    {"CONNECTION_REFUSED", "AUTHENTICATION_FAILED", "DATABASE_NOT_FOUND", "INVALID_HOST",
     "INVALID_PORT", "MAX_CONNECTIONS", "TIMEOUT", "PERMISSION_DENIED", "UNKNOWN"}

FixedMessages ==
    {UnknownMessage}
    \cup {ErrorKeywords[k].message : k \in DOMAIN ErrorKeywords}
    \cup UNION {{ErrorPatterns(t)[n].message : n \in DOMAIN ErrorPatterns(t)} : t \in Engines}

\* C24: get_error answers every text with a category of the enumeration;
\* when the text carries codes of the table the answer is a table row of
\* one of them, a keyword row is the answer only when no code occurs and
\* its expression matches, and with neither the answer is UNKNOWN with the
\* generic message; the message is always one of the fixed messages and
\* never a part of the text.
C24_CodeThenKeywordThenUnknown ==
    call.op = "get_error" =>
        LET r == response.value
            tab == ErrorPatterns(call.db_type)
            present == CodesIn(call.db_type, call.error_msg)
            matching == {k \in DOMAIN ErrorKeywords :
                            ReSearch(ErrorKeywords[k].pat, LowerText(call.error_msg))}
        IN  /\ response.kind = ""
            /\ r.category \in DatabaseErrorCategories
            /\ present # {} =>
                  \E n \in present : /\ r.error_code = tab[n].code
                                     /\ r.category = tab[n].category
                                     /\ r.message = tab[n].message
            /\ (present = {} /\ matching # {}) =>
                  \E k \in matching : /\ r.error_code = ErrorKeywords[k].code
                                      /\ r.category = ErrorKeywords[k].category
                                      /\ r.message = ErrorKeywords[k].message
            /\ (present = {} /\ matching = {}) =>
                  /\ r.error_code = "UNKNOWN"
                  /\ r.category = "UNKNOWN"
                  /\ r.message = UnknownMessage
            /\ r.message \in FixedMessages
            /\ \A i \in DOMAIN call.error_msg : r.message # call.error_msg[i]
            /\ r.details = call.error_msg

\* A PostgreSQL text with a code of the table and a keyword phrase is
\* classified by the code.
C24_Witness_CodeBeatsKeyword ==
    /\ call.op = "get_error"
    /\ call.db_type = "postgresql"
    /\ call.error_msg = <<"08006", "password authentication failed">>
    /\ response.value.error_code = "08006"
    /\ response.value.category = "CONNECTION_REFUSED"

\* ------------------------------------------------------------------------
\* The configuration codec (specification SpecFunctions)
\* ------------------------------------------------------------------------
\* C25: decrypt_config(encrypt_config(c)) returns c, for every
\* configuration c.
C25_DecryptInvertsEncrypt ==
    call.op = "round_trip" =>
        /\ response.kind = ""
        /\ response.value = call.config

\* ------------------------------------------------------------------------
\* The identifier filter (specification SpecFunctions)
\* ------------------------------------------------------------------------
\* The characters of [a-zA-Z0-9_] among those the identifiers are made of.
WordChars == {"t", "B", "7", "_"}

\* C26: _sanitize_identifier returns the characters of the identifier that
\* are letters, digits or underscore, all of them and in their order; it
\* raises ValueError exactly when there is none; an identifier made of such
\* characters only comes back unchanged, so the function is idempotent.
C26_SanitizeKeepsWordChars ==
    call.op = "sanitize_identifier" =>
        LET s == call.identifier
            keep == {i \in DOMAIN s : s[i] \in WordChars}
        IN  /\ (keep = {}) <=> (response.kind = "ValueError")
            /\ keep # {} =>
                  /\ response.kind = ""
                  /\ Len(response.value) = Cardinality(keep)
                  /\ \A i \in keep :
                        response.value[Cardinality({j \in keep : j <= i})] = s[i]
                  /\ SelectSeq(response.value, LAMBDA ch : ch \in WordChars) = response.value
            /\ (keep = DOMAIN s /\ s # <<>>) => response.value = s

\* 'tab;le' written with the characters of the model: the separator is
\* dropped, the two characters around it stay in their order.
C26_Witness_SeparatorDropped ==
    /\ call.op = "sanitize_identifier"
    /\ call.identifier = <<"t", ";", "B">>
    /\ response.kind = ""
    /\ response.value = <<"t", "B">>


\* ------------------------------------------------------------------------
\* Owners, errors and the connection timestamp (specification SpecStore)
\* ------------------------------------------------------------------------
\* C28: a delete for (owner, name) leaves in the store exactly the
\* definitions that are not that owner's definition of that name; a
\* create, update or delete for an owner neither adds, changes nor removes
\* a definition of another owner; a lookup answers with a stored
\* definition of its owner and a list with its owner's definitions, one
\* entry each, and neither changes the store.
C28_OwnerFrame ==
    [][(pc = "idle" /\ pc' = "done") =>
          /\ call'.op = "delete" =>
                databases' = {r \in databases :
                                 ~(r.user_id = call'.user_id /\ r.name = call'.name)}
          /\ call'.op \in {"create", "update", "delete"} =>
                {r \in databases' : r.user_id # call'.user_id}
                   = {r \in databases : r.user_id # call'.user_id}
          /\ call'.op = "details" =>
                /\ databases' = databases
                /\ response'.status = 200 =>
                      /\ response'.value \in databases
                      /\ response'.value.user_id = ControllerUserId
                      /\ response'.value.name = call'.name
          /\ call'.op = "names" =>
                /\ databases' = databases
                /\ Cardinality(response'.value)
                      = Cardinality({r \in databases : r.user_id = ControllerUserId})
                /\ \A v \in response'.value :
                      \E r \in databases : /\ r.user_id = ControllerUserId
                                           /\ r.name = v.name
                                           /\ r.database_type = v.database_type
                                           /\ r.is_active = v.is_active]_vars

\* A definition was deleted while another owner has a definition of the
\* same name, which is still stored.
C28_Witness_SameNameOtherOwnerKept ==
    /\ pc = "done"
    /\ call.op = "delete"
    /\ response.status = 200
    /\ RowsOf(databases, call.user_id, call.name) = {}
    /\ \E r \in databases : r.name = call.name /\ r.user_id # call.user_id

C30_ActiveHasTimestamp ==
    \A r \in databases : r.is_active => r.last_connected_at # "NULL"

=============================================================================
